---------------------------- MODULE Spec2Model ----------------------------
(***************************************************************************)
(* Model of the interactive session controller of simple-plain-coder:      *)
(* the read-eval-print loop of app.py (run_application), the command       *)
(* registry of command_handlers.py / command_core.py, the profile store of *)
(* config_io.py / config_utils.py, the client factory of llm_client.py /   *)
(* main.py and the response streamer llm_client.run_llm.                   *)
(*                                                                         *)
(* Python strings are modelled as sequences of one-character strings, so   *)
(* that strip, lower, startswith and split are computed, not assumed.      *)
(***************************************************************************)
EXTENDS Integers, Sequences, FiniteSets, TLC

(***************************************************************************)
(* Bounds of the model.                                                    *)
(***************************************************************************)
\* chat turns per session
MaxTurns == 2
\* Assistant objects constructed per session
MaxBuilds == 3
\* intermediate responses the agent produces in one run
MaxResponses == 2
\* external removals of a profile from coders.toml per session
MaxEdits == 1
\* length of an input text given to parse_command
MaxLen == 4
\* calls of register_command
MaxRegs == 3

(***************************************************************************)
(* Python values.                                                          *)
(***************************************************************************)
\* None: a sequence that is no Python string of the model
None == <<"None">>
\* the local `response` of run_llm before its first assignment: a value that is
\* no response of the agent
Unbound == << [role |-> "Unbound", content |-> << >>] >>

(***************************************************************************)
(* String helpers (str methods used by the source).                        *)
(***************************************************************************)
UpperChars == <<"A","B","C","D","E","F","G","H","I","J","K","L","M",
                "N","O","P","Q","R","S","T","U","V","W","X","Y","Z">>
LowerChars == <<"a","b","c","d","e","f","g","h","i","j","k","l","m",
                "n","o","p","q","r","s","t","u","v","w","x","y","z">>

LowerChar(c) ==
    IF \E i \in 1..Len(UpperChars) : UpperChars[i] = c
    THEN LowerChars[CHOOSE i \in 1..Len(UpperChars) : UpperChars[i] = c]
    ELSE c

\* str.lower()
Lower(s) == [i \in 1..Len(s) |-> LowerChar(s[i])]

\* str.isspace() for one character
IsSpace(c) == c \in {" ", "\t"}

RECURSIVE LStrip(_)
LStrip(s) == IF s # <<>> /\ IsSpace(Head(s)) THEN LStrip(Tail(s)) ELSE s

RECURSIVE RStrip(_)
RStrip(s) ==
    IF s # <<>> /\ IsSpace(s[Len(s)]) THEN RStrip(SubSeq(s, 1, Len(s) - 1)) ELSE s

\* str.strip()
Strip(s) == RStrip(LStrip(s))

\* str.startswith(p)
StartsWith(s, p) == Len(s) >= Len(p) /\ SubSeq(s, 1, Len(p)) = p

\* s[n:] for n >= 0
SliceFrom(s, n) == IF n >= Len(s) THEN <<>> ELSE SubSeq(s, n + 1, Len(s))

\* sub in s
Contains(s, sub) ==
    \E i \in 0..(Len(s) - Len(sub)) : SubSeq(s, i + 1, i + Len(sub)) = sub

\* length of the leading run of non-whitespace characters
RECURSIVE WordLen(_)
WordLen(s) == IF s = <<>> \/ IsSpace(Head(s)) THEN 0 ELSE 1 + WordLen(Tail(s))

\* str.split(maxsplit=1): a list of zero, one or two strings
SplitMax1(s) ==
    LET t == LStrip(s)
        n == WordLen(t)
        rest == LStrip(SliceFrom(t, n))
    IN  IF t = <<>> THEN <<>>
        ELSE IF rest = <<>> THEN << SubSeq(t, 1, n) >>
        ELSE << SubSeq(t, 1, n), rest >>

\* str.split(':', 1)[0]
RECURSIVE BeforeColon(_)
BeforeColon(s) ==
    IF s = <<>> \/ Head(s) = ":" THEN <<>> ELSE <<Head(s)>> \o BeforeColon(Tail(s))

RECURSIVE Concat(_)
Concat(ss) == IF ss = <<>> THEN <<>> ELSE Head(ss) \o Concat(Tail(ss))

(***************************************************************************)
(* String literals.                                                        *)
(***************************************************************************)
S_quit == <<"q","u","i","t">>
S_exit == <<"e","x","i","t">>
S_bye  == <<"/","b","y","e">>
S_help == <<"/","h","e","l","p">>
S_list == <<"/","l","i","s","t">>
S_a1 == <<"a","1">>
S_a2 == <<"a","2">>
S_a3 == <<"a","3">>
S_Alpha == <<"A","l","p","h","a">>
S_ALPHA == <<"A","L","P","H","A">>
S_Beta == <<"B","e","t","a">>
S_m1 == <<"m","1">>
S_m2 == <<"m","2">>

S_hello == <<"h","e","l","l","o">>
S_hi == <<"h","i">>
S_h == <<"h">>
S_yo == <<"y","o">>
S_zz == <<"z","z">>

(***************************************************************************)
(* Python dict with insertion order: a sequence of <<key, value>> pairs    *)
(* with distinct keys.                                                     *)
(***************************************************************************)
DictHas(d, k) == \E i \in 1..Len(d) : d[i][1] = k

DictGet(d, k, default) ==
    IF DictHas(d, k) THEN d[CHOOSE i \in 1..Len(d) : d[i][1] = k][2] ELSE default

\* d[k] = v
DictSet(d, k, v) ==
    IF DictHas(d, k)
    THEN [i \in 1..Len(d) |-> IF d[i][1] = k THEN <<k, v>> ELSE d[i]]
    ELSE Append(d, <<k, v>>)

DictKeys(d) == [i \in 1..Len(d) |-> d[i][1]]

(***************************************************************************)
(* Profile store: the content of coders.toml as load_coders() returns it.  *)
(* A profile is [id, name, model]: name is value.get('name', key), model   *)
(* is value.get('model_name') with <<>> when absent or empty.              *)
(***************************************************************************)
Profile(i, n, m) == [id |-> i, name |-> n, model |-> m]

\* coders.get(id, {}) when the id is not a key
NoConfig == Profile(None, <<>>, <<>>)

StoreAB == << Profile(S_a1, S_Alpha, S_m1), Profile(S_a2, S_Beta, S_m2) >>
StoreDup == << Profile(S_a1, S_Alpha, S_m1), Profile(S_a2, S_ALPHA, S_m2),
               Profile(S_a3, S_Beta, <<>>) >>
StoreNoModel == << Profile(S_a1, S_Alpha, <<>>) >>
StoreEmpty == << >>
StoreOne == << Profile(S_a2, S_Beta, S_m2) >>

InitialStores == {StoreAB, StoreDup, StoreNoModel, StoreEmpty, StoreOne}

\* a coders.toml whose second table has the empty key: [a1] and [""]
StoreBlankId == << Profile(S_a1, S_Alpha, S_m1), Profile(<< >>, S_Beta, S_m2) >>

\* the store without its i-th profile
RemoveAt(st, i) == SubSeq(st, 1, i - 1) \o SubSeq(st, i + 1, Len(st))

\* config_core.extract_available_coders
extract_available_coders(coders_data) ==
    [i \in 1..Len(coders_data) |-> << coders_data[i].id, coders_data[i].name >>]

\* config_core.find_default_coder_id
find_default_coder_id(coders_data) ==
    IF coders_data = <<>> THEN None ELSE coders_data[1].id

\* get_active_coder_id of config_io and of config_utils: the value returned,
\* given the module's _current_coder_id and the loaded coders
get_active_coder_id(cur, coders_data) ==
    IF cur # None THEN cur
    ELSE IF coders_data = <<>> THEN <<>>
    ELSE find_default_coder_id(coders_data)

\* mutant of current_after_get: the resolved default is not kept
current_after_get_uncached(cur, coders_data) == cur

\* the module's _current_coder_id after get_active_coder_id
current_after_get(cur, coders_data) ==
    IF cur # None THEN cur
    ELSE IF coders_data = <<>> THEN None
    ELSE find_default_coder_id(coders_data)

\* mutant of set_active_coder_id: the assignment binds a local, not the global
set_active_coder_id_local(cur, coder_id) == cur

\* set_active_coder_id of config_io: the module's _current_coder_id after it
set_active_coder_id(cur, coder_id) == coder_id

\* get_llm_config: coders.get(active_coder_id, {})
get_llm_config(cur, coders_data) ==
    LET active == get_active_coder_id(cur, coders_data)
    IN  IF \E i \in 1..Len(coders_data) : coders_data[i].id = active
        THEN coders_data[CHOOSE i \in 1..Len(coders_data) : coders_data[i].id = active]
        ELSE NoConfig

\* next((name for key, name in coders if key == id), id)
display_name(coder_list, id) ==
    IF \E i \in 1..Len(coder_list) : coder_list[i][1] = id
    THEN coder_list[CHOOSE i \in 1..Len(coder_list) :
                      /\ coder_list[i][1] = id
                      /\ \A j \in 1..(i - 1) : coder_list[j][1] # id][2]
    ELSE id

(***************************************************************************)
(* Client factory: initialize_llm_client of llm_client.py (reads config_io)*)
(* and of main.py (reads config_utils).  A client is the Assistant object: *)
(* the configuration it was built from and the serial number of its        *)
(* construction (object identity).                                         *)
(***************************************************************************)
NoClient == [llm |-> NoConfig, serial |-> 0]

\* llm_client.initialize_llm_client: the configuration it reads
\* (config_io.get_llm_config, hence the active id of config_io)
llm_client_config(io_cur, coders_data) == get_llm_config(io_cur, coders_data)

\* main.initialize_llm_client: the configuration it reads
\* (config_utils.get_llm_config, hence the active id of config_utils)
main_client_config(utils_cur, coders_data) == get_llm_config(utils_cur, coders_data)

\* mutant of raises_no_model: a missing model identifier is accepted
raises_no_model_never(llm_config) == FALSE

\* the ValueError test: `if not model_name`
raises_no_model(llm_config) == llm_config.model = <<>>

Assistant(llm_config, n) == [llm |-> llm_config, serial |-> n]

(***************************************************************************)
(* Command registry (command_handlers.py) and parsing (command_core.py).   *)
(***************************************************************************)
\* mutant of is_command: no input is taken for a command
is_command_never(input_text) == FALSE

\* command_core.is_command
is_command(input_text) == StartsWith(input_text, <<"/">>)

\* mutant of parse_command: the text is split at the first blank only
parse_command_first_blank(input_text) ==
    IF ~StartsWith(input_text, <<"/">>) THEN << <<>>, input_text >>
    ELSE << SubSeq(input_text, 1, WordLen(input_text)),
            SliceFrom(input_text, WordLen(input_text) + 1) >>

\* command_core.parse_command: <<command, args>>
parse_command(input_text) ==
    IF ~StartsWith(input_text, <<"/">>) THEN << <<>>, input_text >>
    ELSE LET parts == SplitMax1(input_text)
         IN  << parts[1], IF Len(parts) > 1 THEN parts[2] ELSE <<>> >>

\* mutant of match_command: the lookup ignores the letter case
match_command_nocase(command, registry) == DictGet(registry, Lower(command), None)

\* command_core.match_command: registry.get(command)
match_command(command, registry) == DictGet(registry, command, None)

\* mutant of register_command: the description is not recorded
register_command_handler_only(reg, command, handler, description) ==
    [commands |-> DictSet(reg.commands, command, handler),
     descriptions |-> reg.descriptions]

\* command_handlers.register_command on the pair of dicts
register_command(reg, command, handler, description) ==
    [commands |-> DictSet(reg.commands, command, handler),
     descriptions |-> DictSet(reg.descriptions, command, description)]

\* the handler functions, as values of the registry
handle_bye_command == <<"handle_bye_command">>
handle_help_command == <<"handle_help_command">>
handle_list_command == <<"handle_list_command">>

\* the descriptions of the built-in commands (abbreviated)
D_bye == <<"q">>
D_help == <<"h">>
D_list == <<"l">>

EmptyRegistry == [commands |-> <<>>, descriptions |-> <<>>]

\* the three registrations at import of command_handlers
BuiltinRegistry ==
    register_command(
        register_command(
            register_command(EmptyRegistry, S_bye, handle_bye_command, D_bye),
            S_help, handle_help_command, D_help),
        S_list, handle_list_command, D_list)

\* the registrations command_handlers makes when it is imported, as calls
\* <<command, handler, description>>
BuiltinCalls ==
    << << S_bye, handle_bye_command, D_bye >>,
       << S_help, handle_help_command, D_help >>,
       << S_list, handle_list_command, D_list >> >>

\* command_core.prepare_command_list, as command_handlers.get_commands
\* calls it: the (name, description) pairs in the order of the dict
prepare_command_list(descriptions) ==
    [i \in 1..Len(descriptions) |-> << descriptions[i][1], descriptions[i][2] >>]

S_header == <<"A","v","a","i","l","a","b","l","e"," ",
              "c","o","m","m","a","n","d","s",":">>

\* sep.join(lines)
RECURSIVE Join(_, _)
Join(lines, sep) ==
    IF lines = <<>> THEN <<>>
    ELSE IF Len(lines) = 1 THEN lines[1]
    ELSE lines[1] \o sep \o Join(Tail(lines), sep)

\* str.replace(old, new) for a non-empty old
RECURSIVE Replace(_, _, _)
Replace(text, old, new) ==
    IF text = <<>> THEN <<>>
    ELSE IF StartsWith(text, old)
    THEN new \o Replace(SliceFrom(text, Len(old)), old, new)
    ELSE << Head(text) >> \o Replace(Tail(text), old, new)

\* mutant of help_line: the description is left out
help_line_name_only(cmd, desc) == <<" ", " ">> \o cmd

\* command_core.py 95: f"  {cmd} - {desc}"
help_line(cmd, desc) == <<" ", " ">> \o cmd \o <<" ", "-", " ">> \o desc

\* command_core.format_command_help
format_command_help(descriptions) ==
    Join(<< S_header >> \o
            [i \in 1..Len(descriptions) |->
                help_line(descriptions[i][1], descriptions[i][2])],
         << "\n" >>)

\* command_handlers.py 99-100: what handle_help_command prints (print adds
\* the final line break)
help_printed(reg) ==
    Replace(format_command_help(reg.descriptions), << "\\", "n" >>, << "\n" >>)
        \o << "\n" >>

(***************************************************************************)
(* Profile selector (prompt_io.fuzzy_select_from_list, prompt_core).       *)
(***************************************************************************)
\* prompt_core.prepare_display_choices
prepare_display_choices(values) ==
    [i \in 1..Len(values) |-> values[i][1] \o <<":", " ">> \o values[i][2]]

\* prompt_core.extract_key_from_display
extract_key_from_display(display_choice) ==
    IF display_choice = <<>> THEN <<>> ELSE Strip(BeforeColon(display_choice))

\* prompt_core.find_best_match
find_best_match(query, choices) ==
    IF query = <<>> \/ choices = <<>> THEN None
    ELSE IF \E i \in 1..Len(choices) : Contains(Lower(choices[i]), Lower(query))
    THEN choices[CHOOSE i \in 1..Len(choices) :
                   /\ Contains(Lower(choices[i]), Lower(query))
                   /\ \A j \in 1..(i - 1) : ~Contains(Lower(choices[j]), Lower(query))]
    ELSE None

\* the text the user leaves in the selector prompt; Interrupt is Ctrl+C/Ctrl+D
Interrupt == <<"Interrupt">>

\* fuzzy_select_from_list(prompt_text, values, default_value) when the user
\* accepts the text `result`
fuzzy_select_from_list(values, result) ==
    LET choices == prepare_display_choices(values)
        in_key_map == \E i \in 1..Len(choices) : choices[i] = result
    IN  IF result = Interrupt THEN None
        ELSE IF in_key_map THEN extract_key_from_display(result)
        ELSE IF Strip(result) = <<>> THEN None
        ELSE LET best_match == find_best_match(result, choices)
             IN  IF best_match # None THEN extract_key_from_display(best_match)
                 ELSE None

\* texts accepted in the selector: every displayed choice, nothing, a
\* fragment of a choice, a text that matches nothing, or an interrupt
SelectorTexts(values) ==
    { prepare_display_choices(values)[i] : i \in 1..Len(values) }
        \cup { <<>>, S_a2, S_zz, Interrupt }

(***************************************************************************)
(* Inputs of the session.                                                  *)
(***************************************************************************)
At(s) == <<"@">> \o s

\* what session.prompt returns, before get_user_input strips it
RawInputs ==
    { <<>>, <<" ">>,
      <<" ">> \o S_hello \o <<" ">>,
      At(S_ALPHA), At(<<" ">> \o S_Beta), At(S_zz), At(S_quit), At(S_bye),
      <<" ">> \o S_quit, <<"E","X","I","T">>,
      S_bye, S_bye \o <<" ">> \o S_hi, <<"/","B","Y","E">>,
      S_help, S_list, <<"/">> }

\* the content of the last message of an intermediate response of the agent
Contents == { <<>>, S_h, S_hi }

(***************************************************************************)
(* State.                                                                  *)
(***************************************************************************)
VARIABLES
    store,                  \* coders.toml as load_coders() returns it
    edits,                  \* number of external edits of coders.toml
    io_current_coder_id,    \* config_io._current_coder_id
    utils_current_coder_id, \* config_utils._current_coder_id
    registry,               \* command_handlers._commands and _descriptions
    pc,                     \* "start", "continue" (at the loop test), "input",
                            \* "stream", "exiting", "crashed"
    error,                  \* the exception that left run_application, or "none"
    coders,                 \* run_application: coders
    bot,                    \* run_application: bot
    context,                \* run_application: context (exit_flag, bot)
    messages,               \* run_application: messages = context['messages']
    nbuilds,                \* Assistant objects constructed so far
    current_coder_id,       \* run_application: current_coder_id
    coder_name,             \* run_application: coder_name (prompt decoration)
    raw_input,              \* what session.prompt returned in this iteration
    user_input,             \* run_application: user_input
    route,                  \* the branch of the loop body taken for user_input
    dispatched,             \* handle_command was called in this iteration
    handled,                \* what handle_command returned in this iteration
    rebuilds,               \* initialize_llm_client calls in this iteration
    out,                    \* notices printed in this iteration
    help_out,               \* the text handle_help_command printed in this iteration
    run_calls,              \* calls of run_llm in this iteration
    handler_calls,          \* the handlers handle_command called in this
                            \* iteration, each with its args
    selected,               \* handle_list_command: selected
    run_bot,                \* run_llm: bot
    run_messages,           \* run_llm: messages
    response,               \* run_llm: response (Unbound before the first one)
    gen_response_text,      \* run_llm: response_text
    nresp,                  \* responses produced by bot.run in this run
    chunks,                 \* fragments yielded by run_llm in this turn
    response_text,          \* run_application: response_text
    turn_history,           \* messages when the chat turn began
    reg_log,                \* the register_command calls made so far
    fn,                     \* the function called outside a session, or "none"
    fn_arg,                 \* its argument
    fn_result               \* its result: [raised, value]

vars == << store, edits, io_current_coder_id, utils_current_coder_id, registry,
           pc, error, coders, bot, context, messages, nbuilds,
           current_coder_id, coder_name, raw_input, user_input, route,
           dispatched, handled, rebuilds,
           out, help_out, run_calls, handler_calls, selected, run_bot, run_messages, response,
           gen_response_text, nresp, chunks, response_text, turn_history,
           reg_log, fn, fn_arg, fn_result >>

\* calls made outside a session: registrations and the pure functions
apiVars == << reg_log, fn, fn_arg, fn_result >>
storeVars == << store, edits >>
moduleVars == << io_current_coder_id, utils_current_coder_id, registry >>
sessionVars == << coders, bot, context, messages, nbuilds >>
\* the frame of the generator run_llm, which exists while a turn streams
\* the locals of one iteration of the main loop
loopVars == << current_coder_id, coder_name, raw_input, user_input, route,
               dispatched, handled, rebuilds, out, help_out, run_calls, handler_calls,
               selected >>
genVars == << run_bot, run_messages, response, gen_response_text, nresp >>
runVars == << run_bot, run_messages, response, gen_response_text, nresp,
              chunks, response_text, turn_history >>

\* the state before run_application is called, but for the store, the
\* registry and the program counter
Fresh ==
    /\ edits = 0
    /\ io_current_coder_id = None
    /\ utils_current_coder_id = None
    /\ error = "none"
    /\ coders = <<>>
    /\ bot = NoClient
    /\ context = [exit_flag |-> FALSE, bot |-> NoClient]
    /\ messages = <<>>
    /\ nbuilds = 0
    /\ current_coder_id = None
    /\ coder_name = None
    /\ raw_input = None
    /\ user_input = None
    /\ route = "none"
    /\ dispatched = FALSE
    /\ handled = FALSE
    /\ rebuilds = 0
    /\ out = <<>>
    /\ help_out = <<>>
    /\ run_calls = 0
    /\ handler_calls = << >>
    /\ selected = None
    /\ run_bot = NoClient
    /\ run_messages = <<>>
    /\ response = Unbound
    /\ gen_response_text = <<>>
    /\ nresp = 0
    /\ chunks = <<>>
    /\ response_text = <<>>
    /\ turn_history = <<>>

\* a session: the modules are imported, command_handlers has made its three
\* registrations, run_application is about to be called
Init ==
    /\ store \in InitialStores
    /\ registry = BuiltinRegistry
    /\ reg_log = BuiltinCalls
    /\ pc = "start"
    /\ fn = "none"
    /\ fn_arg = <<>>
    /\ fn_result = <<>>
    /\ Fresh

(***************************************************************************)
(* Startup of run_application (app.py 35-52).                              *)
(***************************************************************************)
Startup ==
    /\ pc = "start"
    /\ LET llm_config == llm_client_config(io_current_coder_id, store)
       IN  /\ io_current_coder_id' = current_after_get(io_current_coder_id, store)
           /\ rebuilds' = 1
           /\ IF raises_no_model(llm_config)
              THEN /\ pc' = "crashed"
                   /\ error' = "ValueError"
                   /\ UNCHANGED << coders, bot, context, messages, nbuilds >>
              ELSE /\ pc' = "continue"
                   /\ error' = error
                   /\ nbuilds' = nbuilds + 1
                   /\ bot' = Assistant(llm_config, nbuilds + 1)
                   /\ messages' = <<>>
                   /\ context' = [exit_flag |-> FALSE,
                                  bot |-> Assistant(llm_config, nbuilds + 1)]
                   /\ coders' = extract_available_coders(store)
    /\ UNCHANGED << apiVars, storeVars, utils_current_coder_id, registry,
                    current_coder_id, coder_name, raw_input, user_input, route,
                    dispatched, handled, out, help_out, run_calls, handler_calls, selected,
                    runVars >>

(***************************************************************************)
(* Main loop of run_application (app.py 55-120).  One action per branch of *)
(* the loop body; each starts at the loop head with the input `raw` that   *)
(* session.prompt delivers (None for Ctrl+C / Ctrl+D).                     *)
(***************************************************************************)
\* mutant of get_user_input: the input is not trimmed
get_user_input_untrimmed(raw) == raw

\* prompt_io.get_user_input
get_user_input(raw) == IF raw = None THEN None ELSE Strip(raw)

\* app.py 64: user_input is None
is_cancel(u) == u = None
\* app.py 68: not user_input
is_empty(u) == u = <<>>
\* app.py 72: user_input.startswith('@')
is_switch(u) == StartsWith(u, <<"@">>)
\* mutant of is_exit_word: the comparison is case-sensitive
is_exit_word_exact(u) == u \in {S_quit, S_exit}

\* app.py 101: user_input.lower() in ['quit', 'exit']
is_exit_word(u) == Lower(u) \in {S_quit, S_exit}

\* mutant of after_break: the loop goes on to its test, as after `continue`
after_break_continue == "continue"

\* app.py 65, 102: `break` leaves the loop
after_break == "exiting"

\* mutant of loop_pc: the loop never tests the exit flag
loop_pc_forever(ctx) == "input"

\* app.py 55: the loop condition `while not context['exit_flag']`
loop_pc(ctx) == IF ctx.exit_flag THEN "exiting" ELSE "input"

\* mutant of at_loop_head: input is also requested while a response streams
at_loop_head_or_streaming(position) == position \in {"input", "stream"}

\* app.py 55-61: session.prompt is called at the top of the loop body only
at_loop_head(position) == position = "input"

\* app.py 57-61: the locals set at the head of an iteration
LoopHead(raw) ==
    /\ at_loop_head(pc)
    /\ current_coder_id' = get_active_coder_id(io_current_coder_id, store)
    /\ coder_name' = display_name(coders, current_coder_id')
    /\ raw_input' = raw
    /\ user_input' = get_user_input(raw)

\* number of chat turns in a history
NumTurns(h) == Cardinality({i \in 1..Len(h) : h[i].role = "user"})

\* app.py 64-65
Cancel ==
    /\ LoopHead(None)
    /\ is_cancel(user_input')
    /\ io_current_coder_id' = current_after_get(io_current_coder_id, store)
    /\ pc' = after_break
    /\ route' = "cancel"
    /\ help_out' = << >>
    /\ run_calls' = 0
    /\ handler_calls' = << >>
    /\ dispatched' = FALSE
    /\ handled' = FALSE
    /\ rebuilds' = 0
    /\ out' = << "Bye!" >>
    /\ UNCHANGED << apiVars, storeVars, utils_current_coder_id, registry, error,
                    sessionVars, selected, runVars >>

\* app.py 68-69
EmptyInput ==
    \E raw \in RawInputs :
        /\ LoopHead(raw)
        /\ ~is_cancel(user_input')
        /\ is_empty(user_input')
        /\ io_current_coder_id' = current_after_get(io_current_coder_id, store)
        /\ pc' = "continue"
        /\ route' = "empty"
        /\ help_out' = << >>
        /\ run_calls' = 0
        /\ handler_calls' = << >>
        /\ dispatched' = FALSE
        /\ handled' = FALSE
        /\ rebuilds' = 0
        /\ out' = << >>
        /\ UNCHANGED << apiVars, storeVars, utils_current_coder_id, registry, error,
                        sessionVars, selected, runVars >>

\* app.py 76-80: the first key whose name matches, or None
selected_key_of(coder_list, coder_input) ==
    IF \E i \in 1..Len(coder_list) : Lower(coder_input) = Lower(coder_list[i][2])
    THEN coder_list[CHOOSE i \in 1..Len(coder_list) :
                      /\ Lower(coder_input) = Lower(coder_list[i][2])
                      /\ \A j \in 1..(i - 1) :
                            Lower(coder_input) # Lower(coder_list[j][2])][1]
    ELSE None

\* app.py 83: `if selected_key:`
truthy(key) == key # None /\ key # <<>>

\* mutant of needs_switch: the client is rebuilt whatever was selected
needs_switch_always(key, current) == TRUE

\* app.py 84: `if selected_key != current_coder_id:`
needs_switch(key, current) == key # current

\* app.py 72-98
SwitchCoder ==
    \E raw \in RawInputs :
        /\ LoopHead(raw)
        /\ ~is_cancel(user_input')
        /\ ~is_empty(user_input')
        /\ is_switch(user_input')
        /\ route' = "switch"
        /\ help_out' = << >>
        /\ run_calls' = 0
        /\ handler_calls' = << >>
        /\ dispatched' = FALSE
        /\ handled' = FALSE
        /\ LET coder_input == Strip(SliceFrom(user_input', 1))
               selected_key == selected_key_of(coders, coder_input)
               llm_config == llm_client_config(io_current_coder_id', store)
           IN  IF truthy(selected_key)
               THEN IF needs_switch(selected_key, current_coder_id')
                    THEN /\ nbuilds < MaxBuilds
                         /\ io_current_coder_id' =
                               set_active_coder_id(io_current_coder_id, selected_key)
                         /\ rebuilds' = 1
                         /\ IF raises_no_model(llm_config)
                            THEN /\ pc' = "crashed"
                                 /\ error' = "ValueError"
                                 /\ out' = << "Changing coder to" >>
                                 /\ UNCHANGED << bot, context, nbuilds >>
                            ELSE /\ pc' = "continue"
                                 /\ error' = error
                                 /\ nbuilds' = nbuilds + 1
                                 /\ context' = [context EXCEPT
                                        !.bot = Assistant(llm_config, nbuilds + 1)]
                                 /\ bot' = context'.bot
                                 /\ out' = << "Changing coder to", "Coder changed to" >>
                    ELSE /\ io_current_coder_id' =
                                current_after_get(io_current_coder_id, store)
                         /\ rebuilds' = 0
                         /\ pc' = "continue"
                         /\ out' = << "Already using coder" >>
                         /\ UNCHANGED << error, bot, context, nbuilds >>
               ELSE /\ io_current_coder_id' =
                           current_after_get(io_current_coder_id, store)
                    /\ rebuilds' = 0
                    /\ pc' = "continue"
                    /\ out' = << "Unknown coder" >>
                    /\ UNCHANGED << error, bot, context, nbuilds >>
        /\ UNCHANGED << apiVars, storeVars, utils_current_coder_id, registry, coders,
                        messages, selected, runVars >>

\* app.py 101-102
ExitWord ==
    \E raw \in RawInputs :
        /\ LoopHead(raw)
        /\ ~is_cancel(user_input')
        /\ ~is_empty(user_input')
        /\ ~is_switch(user_input')
        /\ is_exit_word(user_input')
        /\ io_current_coder_id' = current_after_get(io_current_coder_id, store)
        /\ pc' = after_break
        /\ route' = "exit"
        /\ help_out' = << >>
        /\ run_calls' = 0
        /\ handler_calls' = << >>
        /\ dispatched' = FALSE
        /\ handled' = FALSE
        /\ rebuilds' = 0
        /\ out' = << >>
        /\ UNCHANGED << apiVars, storeVars, utils_current_coder_id, registry, error,
                        sessionVars, selected, runVars >>

(***************************************************************************)
(* Command dispatch (app.py 105-106, command_handlers.handle_command).     *)
(***************************************************************************)
\* command_handlers.py 45-48: the handler handle_command selects, or None
handler_of(u, reg) == match_command(parse_command(u)[1], reg.commands)

\* mutant of handler_args: the handler is given the whole input
handler_args_whole_input(u) == u

\* command_handlers.py 43: args, the remainder parse_command returns
handler_args(u) == parse_command(u)[2]

\* command_handlers.py 48: handler(args, context), as the call that is made
invoke(handler, u) == << << handler, handler_args(u) >> >>

\* the branches of the loop body that precede the call of handle_command
reaches_dispatch(u) ==
    ~is_cancel(u) /\ ~is_empty(u) /\ ~is_switch(u) /\ ~is_exit_word(u)

\* command_handlers.py 53-55: no handler is registered for the command
CmdUnknown ==
    \E raw \in RawInputs :
        /\ LoopHead(raw)
        /\ reaches_dispatch(user_input')
        /\ is_command(user_input')
        /\ handler_of(user_input', registry) = None
        /\ io_current_coder_id' = current_after_get(io_current_coder_id, store)
        /\ route' = "command"
        /\ help_out' = << >>
        /\ run_calls' = 0
        /\ handler_calls' = << >>
        /\ dispatched' = TRUE
        /\ handled' = TRUE
        /\ pc' = "continue"
        /\ rebuilds' = 0
        /\ out' = << "Unknown command" >>
        /\ UNCHANGED << apiVars, storeVars, utils_current_coder_id, registry, error,
                        sessionVars, selected, runVars >>

\* command_handlers.handle_bye_command
CmdBye ==
    \E raw \in RawInputs :
        /\ LoopHead(raw)
        /\ reaches_dispatch(user_input')
        /\ is_command(user_input')
        /\ handler_of(user_input', registry) = handle_bye_command
        /\ io_current_coder_id' = current_after_get(io_current_coder_id, store)
        /\ context' = [context EXCEPT !.exit_flag = TRUE]
        /\ route' = "command"
        /\ help_out' = << >>
        /\ run_calls' = 0
        /\ handler_calls' = invoke(handler_of(user_input', registry), user_input')
        /\ dispatched' = TRUE
        /\ handled' = TRUE
        /\ pc' = "continue"
        /\ rebuilds' = 0
        /\ out' = << "Goodbye!" >>
        /\ UNCHANGED << apiVars, storeVars, utils_current_coder_id, registry, error,
                        coders, bot, messages, nbuilds, selected, runVars >>

\* command_handlers.handle_help_command
CmdHelp ==
    \E raw \in RawInputs :
        /\ LoopHead(raw)
        /\ reaches_dispatch(user_input')
        /\ is_command(user_input')
        /\ handler_of(user_input', registry) = handle_help_command
        /\ io_current_coder_id' = current_after_get(io_current_coder_id, store)
        /\ route' = "command"
        /\ help_out' = help_printed(registry)
        /\ run_calls' = 0
        /\ handler_calls' = invoke(handler_of(user_input', registry), user_input')
        /\ dispatched' = TRUE
        /\ handled' = TRUE
        /\ pc' = "continue"
        /\ rebuilds' = 0
        /\ out' = << "Available commands:" >>
        /\ UNCHANGED << apiVars, storeVars, utils_current_coder_id, registry, error,
                        sessionVars, selected, runVars >>

\* mutant of no_coders: the list is never taken to be empty
no_coders_never(coder_list) == FALSE

\* command_handlers.py 116: `if not coders:`
no_coders(coder_list) == coder_list = << >>

\* mutant of selection_differs: any selection counts as a change
selection_differs_always(sel, current) == TRUE

\* command_handlers.py 141: `if selected != current_coder_id:`
selection_differs(sel, current) == sel # current

\* command_handlers.handle_list_command; `text` is what the user accepts in
\* the selector.  The client is rebuilt by main.initialize_llm_client, which
\* reads the active id of config_utils.
CmdList ==
    \E raw \in RawInputs :
        /\ LoopHead(raw)
        /\ reaches_dispatch(user_input')
        /\ is_command(user_input')
        /\ handler_of(user_input', registry) = handle_list_command
        /\ route' = "command"
        /\ help_out' = << >>
        /\ run_calls' = 0
        /\ handler_calls' = invoke(handler_of(user_input', registry), user_input')
        /\ dispatched' = TRUE
        /\ LET coder_list == extract_available_coders(store)
               current == get_active_coder_id(io_current_coder_id, store)
               io_after == current_after_get(io_current_coder_id, store)
           IN  IF no_coders(coder_list)
               THEN /\ out' = << "No coders found in config file." >>
                    /\ io_current_coder_id' = io_after
                    /\ handled' = TRUE
                    /\ pc' = "continue"
                    /\ rebuilds' = 0
                    /\ selected' = None
                    /\ UNCHANGED << utils_current_coder_id, error, bot, context,
                                    nbuilds >>
               ELSE \E text \in SelectorTexts(coder_list) :
                    /\ selected' = fuzzy_select_from_list(coder_list, text)
                    /\ IF selected' = None
                       THEN /\ out' = << "Current coder", "Coder selection cancelled." >>
                            /\ io_current_coder_id' = io_after
                            /\ handled' = TRUE
                            /\ pc' = "continue"
                            /\ rebuilds' = 0
                            /\ UNCHANGED << utils_current_coder_id, error, bot,
                                            context, nbuilds >>
                       ELSE IF selection_differs(selected', current)
                       THEN LET llm_config ==
                                    main_client_config(utils_current_coder_id, store)
                            IN  /\ nbuilds < MaxBuilds
                                /\ io_current_coder_id' =
                                      set_active_coder_id(io_current_coder_id, selected')
                                /\ utils_current_coder_id' =
                                      current_after_get(utils_current_coder_id, store)
                                /\ rebuilds' = 1
                                /\ bot' = bot
                                /\ IF raises_no_model(llm_config)
                                   THEN /\ pc' = "crashed"
                                        /\ error' = "ValueError"
                                        /\ handled' = FALSE
                                        /\ out' = << "Current coder", "Coder changed to" >>
                                        /\ UNCHANGED << context, nbuilds >>
                                   ELSE /\ error' = error
                                        /\ nbuilds' = nbuilds + 1
                                        /\ context' = [context EXCEPT
                                              !.bot = Assistant(llm_config, nbuilds + 1)]
                                        /\ handled' = TRUE
                                        /\ pc' = "continue"
                                        /\ out' = << "Current coder", "Coder changed to",
                                                     "Coder changed to" >>
                       ELSE /\ out' = << "Current coder", "Coder unchanged" >>
                            /\ io_current_coder_id' = io_after
                            /\ handled' = TRUE
                            /\ pc' = "continue"
                            /\ rebuilds' = 0
                            /\ UNCHANGED << utils_current_coder_id, error, bot,
                                            context, nbuilds >>
        /\ UNCHANGED << apiVars, storeVars, registry, coders, messages, runVars >>

(***************************************************************************)
(* Chat turn (app.py 109-120) and the response streamer                    *)
(* (llm_client.run_llm), one step per intermediate response of bot.run.    *)
(***************************************************************************)
Message(r, c) == [role |-> r, content |-> c]

\* mutant of accumulate: the fragment replaces the text
accumulate_overwrite(text, chunk) == chunk

\* app.py 115: response_text += chunk
accumulate(text, chunk) == text \o chunk

\* mutant of append_response: an assistant message is appended in any case
append_response_always(history, text) ==
    Append(history, Message("assistant", text))

\* mutant of append_response: the answer takes the place of the last message
append_response_replacing(history, text) ==
    IF text # << >>
    THEN [history EXCEPT ![Len(history)] = Message("assistant", text)]
    ELSE history

\* app.py 119-120: the history after the stream is exhausted
append_response(history, text) ==
    IF text # << >> THEN Append(history, Message("assistant", text)) ELSE history

\* llm_client.py 52: a fragment is yielded for this content
yields_fragment(content, text) == content # << >> /\ content # text

\* llm_client.py 53: the fragment
fragment(content, text) == SliceFrom(content, Len(text))

\* app.py 109-113: handle_command returned False
ChatBegin ==
    \E raw \in RawInputs :
        /\ LoopHead(raw)
        /\ reaches_dispatch(user_input')
        /\ ~is_command(user_input')
        /\ NumTurns(messages) < MaxTurns
        /\ io_current_coder_id' = current_after_get(io_current_coder_id, store)
        /\ route' = "chat"
        /\ help_out' = << >>
        /\ run_calls' = 1
        /\ handler_calls' = << >>
        /\ dispatched' = TRUE
        /\ handled' = FALSE
        /\ rebuilds' = 0
        /\ out' = << >>
        /\ messages' = Append(messages, Message("user", user_input'))
        /\ turn_history' = messages
        /\ run_bot' = bot
        /\ run_messages' = messages'
        /\ response' = Unbound
        /\ gen_response_text' = << >>
        /\ nresp' = 0
        /\ chunks' = << >>
        /\ response_text' = << >>
        /\ pc' = "stream"
        /\ selected' = selected
        /\ UNCHANGED << apiVars, storeVars, utils_current_coder_id, registry, error,
                        coders, bot, context, nbuilds >>

\* what bot.run can produce as one intermediate response: an empty list, or
\* a list of messages whose last one has the given content
AgentResponses == { << >> } \cup { << Message("assistant", c) >> : c \in Contents }

\* llm_client.py 49-54 with app.py 113-115: bot.run produces one more
\* response; when run_llm yields a fragment the loop of app.py consumes it
StreamNext ==
    /\ pc = "stream"
    /\ nresp < MaxResponses
    /\ \E r \in AgentResponses :
        /\ response' = r
        /\ nresp' = nresp + 1
        /\ LET content == IF r # << >> THEN r[Len(r)].content ELSE << >>
               chunk == fragment(content, gen_response_text)
           IN  IF r # << >> /\ yields_fragment(content, gen_response_text)
               THEN /\ chunks' = Append(chunks, chunk)
                    /\ response_text' = accumulate(response_text, chunk)
                    /\ gen_response_text' = content
               ELSE UNCHANGED << chunks, response_text, gen_response_text >>
    /\ UNCHANGED << apiVars, storeVars, moduleVars, pc, error, sessionVars,
                    current_coder_id, coder_name, raw_input, user_input, route,
                    dispatched,
                    handled, rebuilds, out, help_out, run_calls, handler_calls, selected,
                    run_bot, run_messages,
                    turn_history >>

\* bot.run raises: neither run_llm nor run_application catches it
StreamRaise ==
    /\ pc = "stream"
    /\ pc' = "crashed"
    /\ error' = "AgentError"
    /\ UNCHANGED << apiVars, storeVars, moduleVars, sessionVars, current_coder_id,
                    coder_name, raw_input, user_input, route,
                    dispatched, handled,
                    rebuilds, out, help_out, run_calls, handler_calls, selected, runVars >>

\* llm_client.py 56 and app.py 116-120: bot.run is exhausted; run_llm
\* executes `return response` and its frame is gone, then the loop body
\* appends the answer
StreamEnd ==
    /\ pc = "stream"
    /\ IF response = Unbound
       THEN /\ pc' = "crashed"
            /\ error' = "UnboundLocalError"
            /\ messages' = messages
            /\ UNCHANGED genVars
       ELSE /\ pc' = "continue"
            /\ error' = error
            /\ messages' = append_response(messages, response_text)
            /\ run_bot' = NoClient
            /\ run_messages' = << >>
            /\ response' = Unbound
            /\ gen_response_text' = << >>
            /\ nresp' = 0
    /\ UNCHANGED << apiVars, storeVars, moduleVars, coders, bot, context, nbuilds,
                    current_coder_id, coder_name, raw_input, user_input, route,
                    dispatched,
                    handled, rebuilds, out, help_out, run_calls, handler_calls, selected,
                    chunks, response_text,
                    turn_history >>

\* app.py 55: the loop test, reached after startup, by every `continue` and
\* at the end of the loop body.  When the loop goes on, the locals of the
\* finished iteration are dead (each is assigned before it is read again)
\* and take their initial values; when it ends they stay as they are.
LoopTest ==
    /\ pc = "continue"
    /\ pc' = loop_pc(context)
    /\ IF pc' = "input"
       THEN /\ current_coder_id' = None
            /\ coder_name' = None
            /\ raw_input' = None
            /\ user_input' = None
            /\ route' = "none"
            /\ help_out' = << >>
            /\ run_calls' = 0
            /\ handler_calls' = << >>
            /\ dispatched' = FALSE
            /\ handled' = FALSE
            /\ rebuilds' = 0
            /\ out' = << >>
            /\ selected' = None
            /\ chunks' = << >>
            /\ response_text' = << >>
            /\ turn_history' = << >>
       ELSE UNCHANGED << current_coder_id, coder_name, raw_input, user_input,
                         route, dispatched, handled, rebuilds, out, help_out,
                         run_calls, handler_calls, selected,
                         chunks, response_text, turn_history >>
    /\ UNCHANGED << apiVars, storeVars, moduleVars, error, sessionVars, genVars >>

(***************************************************************************)
(* The environment: coders.toml is edited while the session runs.          *)
(***************************************************************************)
ExternalEdit ==
    /\ pc = "input"
    /\ edits < MaxEdits
    /\ \E i \in 1..Len(store) : store' = RemoveAt(store, i)
    /\ edits' = edits + 1
    /\ UNCHANGED << apiVars, moduleVars, pc, error, sessionVars,
                    current_coder_id, coder_name, raw_input, user_input, route,
                    dispatched, handled,
                    rebuilds, out, help_out, run_calls, handler_calls, selected, runVars >>

Next ==
    \/ Startup
    \/ LoopTest
    \/ Cancel
    \/ EmptyInput
    \/ SwitchCoder
    \/ ExitWord
    \/ CmdUnknown
    \/ CmdBye
    \/ CmdHelp
    \/ CmdList
    \/ ChatBegin
    \/ StreamNext
    \/ StreamRaise
    \/ StreamEnd

\* the session alone: coders.toml is not edited while it runs
Spec == Init /\ [][Next]_vars

\* the session and an environment that edits coders.toml
NextEdit ==
    \/ Next
    \/ ExternalEdit

SpecEdit == Init /\ [][NextEdit]_vars

\* the session when the program keeps running: the loop test is evaluated
\* after every iteration, and bot.run, whose stream is finite, is exhausted
SpecLive ==
    /\ Init
    /\ [][Next]_vars
    /\ WF_vars(LoopTest)
    /\ WF_vars(StreamEnd)

\* the session on a store that has a profile with the empty id
InitBlank ==
    /\ store = StoreBlankId
    /\ registry = BuiltinRegistry
    /\ reg_log = BuiltinCalls
    /\ pc = "start"
    /\ fn = "none"
    /\ fn_arg = <<>>
    /\ fn_result = <<>>
    /\ Fresh

SpecBlank == InitBlank /\ [][Next]_vars

(***************************************************************************)
(* The legacy session loop (main.py 95-190) with the legacy registry       *)
(* (commands.py) and selector (prompt_utils.py).  It keeps the active id   *)
(* in config_utils and runs the agent in the loop body; `response`,        *)
(* `response_text` and `chunks` are the locals of main.                    *)
(***************************************************************************)
\* what bot.run can produce as one intermediate response in the legacy
\* loop: the lists of AgentResponses, or a list of two messages
LegacyResponses ==
    AgentResponses
        \cup { << Message("assistant", S_h), Message("assistant", S_hi) >> }

\* prompt_utils.fuzzy_select_from_list when the user accepts `result`
legacy_fuzzy_select_from_list(values, result) ==
    LET choices == prepare_display_choices(values)
        hits == { i \in 1..Len(choices) : choices[i] = result }
        near == { i \in 1..Len(choices) :
                      Contains(Lower(choices[i]), Lower(result)) }
    IN  IF result = Interrupt THEN None
        ELSE IF hits # {}
        THEN values[CHOOSE i \in hits : \A j \in hits : j <= i][1]
        ELSE IF Strip(result) = <<>> THEN None
        ELSE IF near # {}
        THEN values[CHOOSE i \in near : \A j \in near : i <= j][1]
        ELSE None

\* commands.py 37-54, the routing of handle_command: <<"false">> when the
\* input is no command, <<"call", command, args>> when the handler of
\* `command` is called with `args`, <<"unknown", command>> otherwise
legacy_handle_command(input_text, commands) ==
    IF ~StartsWith(input_text, <<"/">>) THEN << "false" >>
    ELSE LET parts == SplitMax1(input_text)
             command == parts[1]
             args == IF Len(parts) > 1 THEN parts[2] ELSE << >>
         IN  IF DictHas(commands, command)
             THEN << "call", command, args >>
             ELSE << "unknown", command >>

\* main.py 104-122
LegacyStartup ==
    /\ pc = "start"
    /\ LET llm_config == main_client_config(utils_current_coder_id, store)
       IN  /\ utils_current_coder_id' =
                 current_after_get(utils_current_coder_id, store)
           /\ rebuilds' = 1
           /\ IF raises_no_model(llm_config)
              THEN /\ pc' = "crashed"
                   /\ error' = "ValueError"
                   /\ UNCHANGED << coders, bot, context, messages, nbuilds >>
              ELSE /\ pc' = "continue"
                   /\ error' = error
                   /\ nbuilds' = nbuilds + 1
                   /\ bot' = Assistant(llm_config, nbuilds + 1)
                   /\ messages' = <<>>
                   /\ context' = [exit_flag |-> FALSE,
                                  bot |-> Assistant(llm_config, nbuilds + 1)]
                   /\ coders' = extract_available_coders(store)
    /\ UNCHANGED << apiVars, storeVars, io_current_coder_id, registry,
                    current_coder_id, coder_name, raw_input, user_input, route,
                    dispatched, handled, out, help_out, run_calls,
                    handler_calls, selected, runVars >>

\* main.py 125-131
LegacyLoopHead(raw) ==
    /\ at_loop_head(pc)
    /\ current_coder_id' = get_active_coder_id(utils_current_coder_id, store)
    /\ coder_name' = display_name(coders, current_coder_id')
    /\ raw_input' = raw
    /\ user_input' = get_user_input(raw)

\* an iteration of the legacy loop that has no effect on the session: what
\* it records of the branch taken
LegacyQuiet(branch, called, result, notices, text, calls, position) ==
    /\ utils_current_coder_id' = current_after_get(utils_current_coder_id, store)
    /\ route' = branch
    /\ dispatched' = called
    /\ handled' = result
    /\ out' = notices
    /\ help_out' = text
    /\ handler_calls' = calls
    /\ pc' = position
    /\ run_calls' = 0
    /\ rebuilds' = 0
    /\ UNCHANGED << apiVars, storeVars, io_current_coder_id, registry, error,
                    sessionVars, selected, runVars >>

\* main.py 133-135
LegacyCancel ==
    /\ LegacyLoopHead(None)
    /\ is_cancel(user_input')
    /\ LegacyQuiet("cancel", FALSE, FALSE, << "Bye!" >>, << >>, << >>, after_break)

\* main.py 137-139
LegacyEmptyInput ==
    \E raw \in RawInputs :
        /\ LegacyLoopHead(raw)
        /\ ~is_cancel(user_input')
        /\ is_empty(user_input')
        /\ LegacyQuiet("empty", FALSE, FALSE, << >>, << >>, << >>, "continue")

\* main.py 141-168
LegacySwitchCoder ==
    \E raw \in RawInputs :
        /\ LegacyLoopHead(raw)
        /\ ~is_cancel(user_input')
        /\ ~is_empty(user_input')
        /\ is_switch(user_input')
        /\ route' = "switch"
        /\ help_out' = << >>
        /\ run_calls' = 0
        /\ handler_calls' = << >>
        /\ dispatched' = FALSE
        /\ handled' = FALSE
        /\ LET coder_input == Strip(SliceFrom(user_input', 1))
               selected_key == selected_key_of(coders, coder_input)
               llm_config == main_client_config(utils_current_coder_id', store)
           IN  IF truthy(selected_key)
               THEN IF needs_switch(selected_key, current_coder_id')
                    THEN /\ nbuilds < MaxBuilds
                         /\ utils_current_coder_id' =
                               set_active_coder_id(utils_current_coder_id,
                                                   selected_key)
                         /\ rebuilds' = 1
                         /\ IF raises_no_model(llm_config)
                            THEN /\ pc' = "crashed"
                                 /\ error' = "ValueError"
                                 /\ out' = << "Changing coder to" >>
                                 /\ UNCHANGED << bot, context, nbuilds >>
                            ELSE /\ pc' = "continue"
                                 /\ error' = error
                                 /\ nbuilds' = nbuilds + 1
                                 /\ context' = [context EXCEPT
                                        !.bot = Assistant(llm_config, nbuilds + 1)]
                                 /\ bot' = context'.bot
                                 /\ out' = << "Changing coder to",
                                              "Coder changed to" >>
                    ELSE /\ utils_current_coder_id' =
                                current_after_get(utils_current_coder_id, store)
                         /\ rebuilds' = 0
                         /\ pc' = "continue"
                         /\ out' = << "Already using coder" >>
                         /\ UNCHANGED << error, bot, context, nbuilds >>
               ELSE /\ utils_current_coder_id' =
                           current_after_get(utils_current_coder_id, store)
                    /\ rebuilds' = 0
                    /\ pc' = "continue"
                    /\ out' = << "Unknown coder" >>
                    /\ UNCHANGED << error, bot, context, nbuilds >>
        /\ UNCHANGED << apiVars, storeVars, io_current_coder_id, registry, coders,
                        messages, selected, runVars >>

\* main.py 170-172
LegacyExitWord ==
    \E raw \in RawInputs :
        /\ LegacyLoopHead(raw)
        /\ ~is_cancel(user_input')
        /\ ~is_empty(user_input')
        /\ ~is_switch(user_input')
        /\ is_exit_word(user_input')
        /\ LegacyQuiet("exit", FALSE, FALSE, << >>, << >>, << >>, after_break)

\* commands.py 52-54 and the handlers of /help (98-102) and /bye (84-87)
LegacyCommand ==
    \E raw \in RawInputs :
        /\ LegacyLoopHead(raw)
        /\ reaches_dispatch(user_input')
        /\ LET routed == legacy_handle_command(user_input', registry.commands)
               handler == IF routed[1] = "call"
                          THEN DictGet(registry.commands, routed[2], None)
                          ELSE None
               calls == IF routed[1] = "call"
                        THEN << << handler, routed[3] >> >> ELSE << >>
           IN  /\ routed[1] # "false"
               /\ handler # handle_list_command
               /\ IF handler = handle_bye_command
                  THEN /\ context' = [context EXCEPT !.exit_flag = TRUE]
                       /\ utils_current_coder_id' =
                             current_after_get(utils_current_coder_id, store)
                       /\ route' = "command"
                       /\ dispatched' = TRUE
                       /\ handled' = TRUE
                       /\ out' = << "Goodbye!" >>
                       /\ help_out' = << >>
                       /\ handler_calls' = calls
                       /\ pc' = "continue"
                       /\ run_calls' = 0
                       /\ rebuilds' = 0
                       /\ UNCHANGED << apiVars, storeVars, io_current_coder_id,
                                       registry, error, coders, bot, messages,
                                       nbuilds, selected, runVars >>
                  ELSE IF handler = handle_help_command
                  THEN LegacyQuiet("command", TRUE, TRUE, << >>,
                                   format_command_help(registry.descriptions)
                                       \o << "\n" >>,
                                   calls, "continue")
                  ELSE LegacyQuiet("command", TRUE, TRUE, << "Unknown command" >>,
                                   << >>, calls, "continue")

\* commands.handle_list_command (commands.py 104-153): the active id of
\* config_utils is set, the client is not rebuilt
LegacyCmdList ==
    \E raw \in RawInputs :
        /\ LegacyLoopHead(raw)
        /\ reaches_dispatch(user_input')
        /\ LET routed == legacy_handle_command(user_input', registry.commands)
           IN  /\ routed[1] = "call"
               /\ DictGet(registry.commands, routed[2], None) = handle_list_command
               /\ handler_calls' = << << handle_list_command, routed[3] >> >>
        /\ route' = "command"
        /\ help_out' = << >>
        /\ run_calls' = 0
        /\ dispatched' = TRUE
        /\ handled' = TRUE
        /\ pc' = "continue"
        /\ rebuilds' = 0
        /\ LET coder_list == extract_available_coders(store)
               current == get_active_coder_id(utils_current_coder_id, store)
               after == current_after_get(utils_current_coder_id, store)
           IN  IF no_coders(coder_list)
               THEN /\ out' = << "No coders found in config file." >>
                    /\ utils_current_coder_id' = after
                    /\ selected' = None
               ELSE \E text \in SelectorTexts(coder_list) :
                    /\ selected' = legacy_fuzzy_select_from_list(coder_list, text)
                    /\ IF selected' = None
                       THEN /\ out' = << "Current coder",
                                         "Coder selection cancelled." >>
                            /\ utils_current_coder_id' = after
                       ELSE IF selection_differs(selected', current)
                       THEN /\ out' = << "Current coder", "Coder changed to",
                                         "Please restart the application" >>
                            /\ utils_current_coder_id' =
                                  set_active_coder_id(utils_current_coder_id,
                                                      selected')
                       ELSE /\ out' = << "Current coder", "Coder unchanged" >>
                            /\ utils_current_coder_id' = after
        /\ UNCHANGED << apiVars, storeVars, io_current_coder_id, registry, error,
                        sessionVars, runVars >>

\* main.py 178-182: commands.handle_command returned False
LegacyChatBegin ==
    \E raw \in RawInputs :
        /\ LegacyLoopHead(raw)
        /\ reaches_dispatch(user_input')
        /\ legacy_handle_command(user_input', registry.commands) = << "false" >>
        /\ NumTurns(messages) < MaxTurns
        /\ utils_current_coder_id' = current_after_get(utils_current_coder_id, store)
        /\ route' = "chat"
        /\ help_out' = << >>
        /\ run_calls' = 1
        /\ handler_calls' = << >>
        /\ dispatched' = TRUE
        /\ handled' = FALSE
        /\ rebuilds' = 0
        /\ out' = << >>
        /\ messages' = Append(messages, Message("user", user_input'))
        /\ turn_history' = messages
        /\ run_bot' = bot
        /\ run_messages' = messages'
        /\ response' = response
        /\ gen_response_text' = << >>
        /\ nresp' = 0
        /\ chunks' = << >>
        /\ response_text' = << >>
        /\ pc' = "stream"
        /\ selected' = selected
        /\ UNCHANGED << apiVars, storeVars, io_current_coder_id, registry, error,
                        coders, bot, context, nbuilds >>

\* main.py 182-187: bot.run produces one more response
LegacyStreamNext ==
    /\ pc = "stream"
    /\ nresp < MaxResponses
    /\ \E r \in LegacyResponses :
        /\ response' = r
        /\ nresp' = nresp + 1
        /\ LET content == IF r # << >> THEN r[Len(r)].content ELSE << >>
           IN  IF r # << >> /\ content # << >> /\ content # response_text
               THEN /\ chunks' = Append(chunks, SliceFrom(content, Len(response_text)))
                    /\ response_text' = content
               ELSE UNCHANGED << chunks, response_text >>
    /\ UNCHANGED << apiVars, storeVars, moduleVars, pc, error, sessionVars,
                    loopVars, run_bot, run_messages, gen_response_text,
                    turn_history >>

\* bot.run raises: main does not catch it
LegacyStreamRaise ==
    /\ pc = "stream"
    /\ pc' = "crashed"
    /\ error' = "AgentError"
    /\ UNCHANGED << apiVars, storeVars, moduleVars, sessionVars, loopVars,
                    runVars >>

\* main.py 188-190: bot.run is exhausted; messages.extend(response), where
\* `response` is the local of main: unbound when no response was ever
\* produced, the one of an earlier turn when this turn produced none
LegacyStreamEnd ==
    /\ pc = "stream"
    /\ IF response = Unbound
       THEN /\ pc' = "crashed"
            /\ error' = "UnboundLocalError"
            /\ messages' = messages
       ELSE /\ pc' = "continue"
            /\ error' = error
            /\ messages' = messages \o response
    /\ UNCHANGED << apiVars, storeVars, moduleVars, coders, bot, context, nbuilds,
                    loopVars, runVars >>

NextLegacy ==
    \/ LegacyStartup
    \/ LoopTest
    \/ LegacyCancel
    \/ LegacyEmptyInput
    \/ LegacySwitchCoder
    \/ LegacyExitWord
    \/ LegacyCommand
    \/ LegacyCmdList
    \/ LegacyChatBegin
    \/ LegacyStreamNext
    \/ LegacyStreamRaise
    \/ LegacyStreamEnd

SpecLegacy == Init /\ [][NextLegacy]_vars

(***************************************************************************)
(* The registry as an interface: any calls of register_command while the   *)
(* modules are imported; run_application runs once command_handlers has    *)
(* made its own three registrations.                                       *)
(***************************************************************************)
\* the calls of register_command that are tried
RegCalls ==
    { << command, entry[1], entry[2] >> :
        command \in { S_bye, S_help, S_list },
        entry \in { << handle_bye_command, D_bye >>,
                    << handle_help_command, D_help >>,
                    << handle_list_command, D_list >>,
                    << handle_help_command, D_bye >> } }

InitReg ==
    /\ store \in InitialStores
    /\ registry = EmptyRegistry
    /\ reg_log = <<>>
    /\ pc = "import"
    /\ fn = "none"
    /\ fn_arg = <<>>
    /\ fn_result = <<>>
    /\ Fresh

\* command_handlers.py 19-28
RegisterCommand ==
    /\ pc = "import"
    /\ Len(reg_log) < MaxRegs
    /\ \E call \in RegCalls :
        /\ registry' = register_command(registry, call[1], call[2], call[3])
        /\ reg_log' = Append(reg_log, call)
    /\ UNCHANGED << storeVars, io_current_coder_id, utils_current_coder_id, pc,
                    error, sessionVars, loopVars, runVars, fn, fn_arg, fn_result >>

\* command_handlers.py 158-160, app.py 123: the import has made the three
\* registrations of command_handlers; run_application is called
ImportDone ==
    /\ pc = "import"
    /\ reg_log = BuiltinCalls
    /\ pc' = "start"
    /\ UNCHANGED << apiVars, storeVars, moduleVars, error, sessionVars, loopVars,
                    runVars >>

NextReg ==
    \/ RegisterCommand
    \/ ImportDone
    \/ Next

SpecReg == InitReg /\ [][NextReg]_vars

(***************************************************************************)
(* The pure functions of command_core and llm_core, called on their own.   *)
(***************************************************************************)
\* a key that a dict does not hold
Absent == << "Absent" >>

\* all texts over an alphabet, up to a length
Texts(alphabet, n) == UNION { [1..k -> alphabet] : k \in 0..n }

\* the input texts of parse_command
ParseInputs == Texts({"/", "a", " "}, MaxLen)

S_server == <<"h","t","t","p",":","/","/","l","o","c","a","l","h","o","s","t",
              ":","1","1","4","3","4","/","v","1">>
S_EMPTY == <<"E","M","P","T","Y">>
S_srv == <<"s","r","v">>
S_key == <<"k","e","y">>

\* llm_core.py 41-42: the keys forwarded as options, in this order
SamplingKeys == << "temperature", "top_p", "top_k", "num_predict", "max_tokens",
                   "repeat_penalty", "presence_penalty", "frequency_penalty" >>

\* the keys a profile of the model may hold, in file order
ProfileKeys == << "model_name", "model_server", "api_key", "temperature",
                  "top_k", "max_tokens", "frequency_penalty", "system_prompt" >>

\* the values a profile may give to a key (numbers by their TOML text)
ProfileValues(key) ==
    CASE key = "model_name" -> { Absent, << >>, S_m1 }
      [] key = "model_server" -> { Absent, << >>, S_srv }
      [] key = "api_key" -> { Absent, S_key }
      [] key = "temperature" -> { Absent, << >>, <<"0">>, <<"0", ".", "7">> }
      [] key = "top_k" -> { Absent, << >>, <<"4", "0">> }
      [] key = "max_tokens" -> { Absent, <<"9">> }
      [] key = "frequency_penalty" -> { Absent, << >>, <<"1">> }
      [] key = "system_prompt" -> { Absent, <<"s">> }

\* the dict of a profile that gives the value choice[i] to ProfileKeys[i]
ProfileDict(choice) ==
    SelectSeq([i \in 1..Len(ProfileKeys) |-> << ProfileKeys[i], choice[i] >>],
              LAMBDA pair : pair[2] # Absent)

\* the profile configurations prepare_llm_config is called with
ProfileConfigs ==
    { ProfileDict(<< v1, v2, v3, v4, v5, v6, v7, v8 >>) :
        v1 \in ProfileValues(ProfileKeys[1]), v2 \in ProfileValues(ProfileKeys[2]),
        v3 \in ProfileValues(ProfileKeys[3]), v4 \in ProfileValues(ProfileKeys[4]),
        v5 \in ProfileValues(ProfileKeys[5]), v6 \in ProfileValues(ProfileKeys[6]),
        v7 \in ProfileValues(ProfileKeys[7]), v8 \in ProfileValues(ProfileKeys[8]) }

\* the result of a call: the exception raised, or "none" and the value
Returned(value) == [raised |-> "none", value |-> value]
Raised(exception) == [raised |-> exception, value |-> << >>]

\* `if value:` for a string value obtained by dict.get
Truthy(value) == value # None /\ value # << >>

\* mutant of forwarded: a key is forwarded whenever the profile holds it
forwarded_if_present(coder_config, key) == DictHas(coder_config, key)

\* llm_core.py 43: `key in coder_config and coder_config[key] != ""`
forwarded(coder_config, key) ==
    DictHas(coder_config, key) /\ DictGet(coder_config, key, None) # << >>

\* llm_core.py 38-44: the options dict
sampling_options(coder_config) ==
    SelectSeq([i \in 1..Len(SamplingKeys) |->
                  << SamplingKeys[i], DictGet(coder_config, SamplingKeys[i], None) >>],
              LAMBDA pair : forwarded(coder_config, pair[1]))

\* llm_core.prepare_llm_config (config_core.prepare_llm_config is the same)
prepare_llm_config(coder_config) ==
    LET model_name == DictGet(coder_config, "model_name", None)
        system_prompt == DictGet(coder_config, "system_prompt", None)
        template == DictGet(coder_config, "template", None)
        options == sampling_options(coder_config)
    IN  IF ~Truthy(model_name) THEN Raised("ValueError")
        ELSE Returned(
            << << "model", model_name >>,
               << "model_server", DictGet(coder_config, "model_server", S_server) >>,
               << "api_key", DictGet(coder_config, "api_key", S_EMPTY) >> >>
            \o (IF Truthy(system_prompt) THEN << << "system", system_prompt >> >>
                ELSE << >>)
            \o (IF Truthy(template) THEN << << "template", template >> >>
                ELSE << >>)
            \o (IF options # << >> THEN << << "options", options >> >>
                ELSE << >>))

\* a value yaml.safe_load can deliver: a mapping (its keys), a list (its
\* items, strings), a string or a number; or the outcome "error" (YAMLError,
\* OSError) or "none" (empty document)
Yaml(kind, keys, text, num) == [kind |-> kind, keys |-> keys, text |-> text, num |-> num]
YamlDict(keys) == Yaml("dict", keys, << >>, 0)
YamlList(items) == Yaml("list", items, << >>, 0)
YamlStr(text) == Yaml("str", << >>, text, 0)
YamlInt(num) == Yaml("int", << >>, << >>, num)

S_mcpServers == <<"m","c","p","S","e","r","v","e","r","s">>

YamlValues ==
    { YamlDict(<< >>), YamlDict(<< "other" >>), YamlDict(<< "mcpServers" >>),
      YamlDict(<< "other", "mcpServers" >>),
      YamlList(<< >>), YamlList(<< "other" >>), YamlList(<< "mcpServers" >>),
      YamlStr(<< >>), YamlStr(S_hi), YamlStr(S_mcpServers),
      YamlInt(0), YamlInt(42) }

\* mcp-servers.yaml: absent, or what loading it gives
McpFiles ==
    { [exists |-> FALSE, yaml |-> Yaml("none", << >>, << >>, 0)] }
        \cup { [exists |-> TRUE, yaml |-> y] :
                  y \in YamlValues \cup { Yaml("none", << >>, << >>, 0),
                                          Yaml("error", << >>, << >>, 0) } }

\* config_io.load_mcp_servers
load_mcp_servers(file) ==
    IF ~file.exists THEN YamlDict(<< >>)
    ELSE IF file.yaml.kind \in {"error", "none"} THEN YamlDict(<< >>)
    ELSE file.yaml

\* `not value`
Falsy(value) ==
    CASE value.kind \in {"dict", "list"} -> value.keys = << >>
      [] value.kind = "str" -> value.text = << >>
      [] value.kind = "int" -> value.num = 0

\* llm_core.prepare_mcp_tools; `'mcpServers' in mcp_config` is membership in
\* the keys of a mapping and the items of a list, substring search in a
\* string, and raises TypeError on a number
prepare_mcp_tools(mcp_config) ==
    IF Falsy(mcp_config) THEN Returned(<< >>)
    ELSE CASE mcp_config.kind \in {"dict", "list"} ->
                  IF \E i \in 1..Len(mcp_config.keys) :
                        mcp_config.keys[i] = "mcpServers"
                  THEN Returned(<< mcp_config >>)
                  ELSE Returned(<< >>)
           [] mcp_config.kind = "str" ->
                  IF Contains(mcp_config.text, S_mcpServers)
                  THEN Returned(<< mcp_config >>)
                  ELSE Returned(<< >>)
           [] mcp_config.kind = "int" -> Raised("TypeError")

\* command_handlers.py 41-55, the routing of handle_command: <<"false">>
\* when the input is no command, <<"call", command, args>> when the handler
\* of `command` is called with `args`, <<"unknown", command>> otherwise
handle_command(input_text, commands) ==
    IF ~is_command(input_text) THEN << "false" >>
    ELSE LET parsed == parse_command(input_text)
             handler == match_command(parsed[1], commands)
         IN  IF handler # None
             THEN << "call", parsed[1], parsed[2] >>
             ELSE << "unknown", parsed[1] >>

\* the handler tables the two dispatchers are compared on: none, one name,
\* two names of which one is the bare `/`
DispatchTables ==
    { << >>,
      << << <<"/", "a">>, handle_bye_command >> >>,
      << << <<"/">>, handle_help_command >>,
         << <<"/", "a", "a">>, handle_bye_command >> >> }

S_ab == <<"a", ":", "b">>
S_test == <<"t", "e", "s", "t">>
S_example == <<"e", "x", "a", "m", "p", "l", "e">>
S_other == <<"o", "t", "h", "e", "r">>
S_tea == <<"T", "e", "a">>
S_te == <<"t", "e">>
S_e == <<"e">>

\* the lists of (id, display name) given to the selector; TOML allows any
\* text as a quoted table name
SelectorValues ==
    { << >>,
      << << S_a1, S_Alpha >>, << S_a2, S_Beta >> >>,
      << << S_a1, S_Alpha >>, << S_ab, S_Beta >> >>,
      << << <<" ">> \o S_a2, S_Beta >>, << S_a1, S_Alpha >> >> }

\* prompt_core.filter_choices
filter_choices(query, choices) ==
    IF query = << >> THEN choices
    ELSE IF query = S_te THEN << S_test >>
    ELSE IF query = S_e THEN << S_example, S_other >>
    ELSE SelectSeq(choices, LAMBDA choice : Contains(Lower(choice), Lower(query)))

\* the queries and the lists of choices filter_choices is called on
FilterQueries == { << >>, S_te, S_e, <<"T">>, <<"t", "h">>, S_zz }
FilterChoices ==
    { << >>,
      << S_test, S_example, S_other >>,
      << S_other, S_tea >>,
      << S_tea, S_test, S_tea >> }

\* the state before a call of one function on one argument
InitFn ==
    /\ store = StoreAB
    /\ registry = BuiltinRegistry
    /\ reg_log = BuiltinCalls
    /\ pc = "call"
    /\ \/ fn = "parse_command" /\ fn_arg \in ParseInputs
       \/ fn = "prepare_llm_config" /\ fn_arg \in ProfileConfigs
       \/ fn = "prepare_mcp_tools" /\ fn_arg \in McpFiles
       \/ fn = "handle_command" /\ fn_arg \in ParseInputs \X DispatchTables
       \/ /\ fn = "fuzzy_select_from_list"
          /\ fn_arg \in { << values, text >> :
                             values \in SelectorValues,
                             text \in UNION { SelectorTexts(v) : v \in SelectorValues } }
       \/ fn = "filter_choices" /\ fn_arg \in FilterQueries \X FilterChoices
    /\ fn_result = <<>>
    /\ Fresh

\* the call returns or raises
Return(result) ==
    /\ pc = "call"
    /\ pc' = "returned"
    /\ fn_result' = result
    /\ UNCHANGED << storeVars, moduleVars, error, sessionVars, loopVars, runVars,
                    reg_log, fn, fn_arg >>

\* command_handlers.py 41-45: is_command and parse_command on the input
CallParseCommand ==
    /\ fn = "parse_command"
    /\ Return(Returned([is_command |-> is_command(fn_arg),
                        parsed |-> parse_command(fn_arg)]))

\* llm_client.py 26
CallPrepareLlmConfig ==
    /\ fn = "prepare_llm_config"
    /\ Return(prepare_llm_config(fn_arg))

\* llm_client.py 30-33
CallPrepareMcpTools ==
    /\ fn = "prepare_mcp_tools"
    /\ Return(prepare_mcp_tools(load_mcp_servers(fn_arg)))

\* command_handlers.handle_command and commands.handle_command on the same
\* input and the same registered names
CallHandleCommand ==
    /\ fn = "handle_command"
    /\ Return(Returned([new |-> handle_command(fn_arg[1], fn_arg[2]),
                        legacy |-> legacy_handle_command(fn_arg[1], fn_arg[2])]))

\* prompt_io.fuzzy_select_from_list: the user accepts the text fn_arg[2]
CallFuzzySelect ==
    /\ fn = "fuzzy_select_from_list"
    /\ Return(Returned(fuzzy_select_from_list(fn_arg[1], fn_arg[2])))

\* prompt_core.filter_choices
CallFilterChoices ==
    /\ fn = "filter_choices"
    /\ Return(Returned(filter_choices(fn_arg[1], fn_arg[2])))

NextFn ==
    \/ CallParseCommand
    \/ CallPrepareLlmConfig
    \/ CallPrepareMcpTools
    \/ CallHandleCommand
    \/ CallFuzzySelect
    \/ CallFilterChoices

SpecFn == InitFn /\ [][NextFn]_vars

(***************************************************************************)
(* Properties.                                                             *)
(***************************************************************************)
\* a step of the main loop that reads and handles one input
IterStep == pc = "input" /\ edits' = edits

\* the step that ends the streaming of a chat turn
TurnEnds == pc = "stream" /\ pc' # "stream"

\* the user message of the chat turn in progress or just finished
TurnUser == Message("user", user_input)

C2_EmptyStreamKeepsUserOnly ==
    [][ (TurnEnds /\ chunks = << >>)
            => messages' = turn_history \o << TurnUser >> ]_vars

\* C2 witness: a turn on a non-empty history has ended with nothing yielded
C2_Witness ==
    /\ pc = "continue"
    /\ route = "chat"
    /\ turn_history # << >>
    /\ chunks = << >>
    /\ messages = turn_history \o << TurnUser >>

\* C3: a chat turn whose agent run ends without a fragment (no response at
\* all, or only responses without content) leaves the session running, at
\* the request for the next input
C3_EmptyStreamIsSoftFailure ==
    [][ (TurnEnds /\ chunks = << >> /\ error' # "AgentError")
            => (pc' = "continue" /\ error' = "none") ]_vars

\* C4: an exception the agent raises during the stream of a chat turn never
\* leaves the main loop
C4_AgentErrorNeverEscapes == ~(pc = "crashed" /\ error = "AgentError")

(***************************************************************************)
(* Profile switching.                                                      *)
(***************************************************************************)
\* the name an `@name` input asks for: the text after the `@`, trimmed
AskedName(u) == Strip(SubSeq(u, 2, Len(u)))

\* the positions of a profile list whose display name is `name`, ignoring
\* the letter case
NamePositions(coder_list, name) ==
    { i \in 1..Len(coder_list) : Lower(coder_list[i][2]) = Lower(name) }

Min(set) == CHOOSE i \in set : \A j \in set : i <= j

\* the id an `@name` input resolves to: the first match in load order
ResolvedId(coder_list, name) ==
    IF NamePositions(coder_list, name) = {} THEN None
    ELSE coder_list[Min(NamePositions(coder_list, name))][1]

\* the profile of the store with this id has a model identifier
ValidProfile(st, id) ==
    \E i \in 1..Len(st) : st[i].id = id /\ st[i].model # << >>

ProfileOf(st, id) == st[CHOOSE i \in 1..Len(st) : st[i].id = id]

\* an iteration that handles an input beginning with `@`
SwitchStep == IterStep /\ user_input' # None /\ StartsWith(user_input', <<"@">>)

\* C5: an input `@name` that resolves to a valid profile id other than the
\* active one causes exactly one client rebuild, makes the resolved id the
\* active id and replaces the session's client by the rebuilt client;
\* history and exit flag are unchanged
C5_SwitchRebuildsOnce ==
    [][ LET r == ResolvedId(coders, AskedName(user_input'))
        IN  (SwitchStep /\ r # None /\ r # << >> /\ r # io_current_coder_id
                /\ ValidProfile(store, r))
            => /\ rebuilds' = 1
               /\ nbuilds' = nbuilds + 1
               /\ io_current_coder_id' = r
               /\ context'.bot = Assistant(ProfileOf(store, r), nbuilds')
               /\ context'.bot # context.bot
               /\ bot' = context'.bot
               /\ messages' = messages
               /\ context'.exit_flag = context.exit_flag
               /\ pc' = "continue" ]_vars

\* C5 witness: profiles [(a1,Alpha),(a2,Beta)], active a2, input @ALPHA has
\* made a1 active with a client built from a1
C5_Witness ==
    /\ store = StoreAB
    /\ pc = "continue"
    /\ route = "switch"
    /\ user_input = At(S_ALPHA)
    /\ current_coder_id = S_a2
    /\ io_current_coder_id = S_a1
    /\ rebuilds = 1
    /\ bot.llm.id = S_a1
    /\ context.bot = bot

\* the display name the session's profile list gives to the active profile
ActiveName == display_name(coders, io_current_coder_id)

ListSelectsOther ==
    /\ IterStep
    /\ route' = "command"
    /\ handler_of(user_input', registry) = handle_list_command
    /\ selected' # None
    /\ selected' # io_current_coder_id

\* C7: when the selector of /list returns an id X other than the active id,
\* afterwards the active id is X and the client of the session context is a
\* new client built from the configuration of profile X
C7_ListBuildsClientOfSelection ==
    [][ ListSelectsOther
            => /\ io_current_coder_id' = selected'
               /\ context'.bot # context.bot
               /\ context'.bot.llm = get_llm_config(selected', store) ]_vars

\* C8: every chat turn runs the response streamer with the client that the
\* session context holds at that time
C8_StreamUsesContextClient == pc = "stream" => run_bot = context.bot

(***************************************************************************)
(* Routing of an input.                                                    *)
(***************************************************************************)
\* the route of a non-empty input by the priority order of the interface
RouteOf(u) ==
    IF Head(u) = "@" THEN "switch"
    ELSE IF Lower(u) = S_quit \/ Lower(u) = S_exit THEN "exit"
    ELSE IF Head(u) = "/" THEN "command"
    ELSE "chat"

\* an iteration that handles a non-empty input
InputStep == IterStep /\ user_input' # None /\ user_input' # << >>

\* C9: every non-empty input takes exactly the route of the first matching
\* rule (`@` switch, quit/exit terminate, `/` command, otherwise chat) and
\* has the effects of that route only: a switch and a command append
\* nothing to the history, a switch neither ends the loop nor reaches the
\* command registry, the exit words end the loop without dispatch, and
\* anything else begins a chat turn
C9_OneRoutePerInput ==
    [][ InputStep
            => /\ route' = RouteOf(user_input')
               /\ route' = "switch"
                    => (pc' # "exiting" /\ ~dispatched' /\ messages' = messages
                            /\ pc' # "stream")
               /\ route' = "exit"
                    => (pc' = "exiting" /\ ~dispatched' /\ messages' = messages)
               /\ route' = "command"
                    => (dispatched' /\ handled' /\ messages' = messages
                            /\ pc' # "stream")
               /\ route' = "chat"
                    => (pc' = "stream" /\ dispatched' /\ ~handled'
                            /\ messages' = Append(messages, Message("user", user_input'))
                            /\ rebuilds' = 0) ]_vars

\* C9 witness: `@quit` was handled as a profile switch: the session still
\* runs, nothing was dispatched and nothing appended
C9_Witness ==
    /\ pc = "continue"
    /\ user_input = At(S_quit)
    /\ route = "switch"
    /\ ~dispatched
    /\ out = << "Unknown coder" >>
    /\ messages # << >>

\* the command name of an input: the text before its first whitespace
CommandName(u) == SubSeq(u, 1, Min({ i \in 1..(Len(u) + 1) : i > Len(u) \/ IsSpace(u[i]) }) - 1)

\* the names the registry has a handler for
Registered(reg) == { reg.commands[i][1] : i \in 1..Len(reg.commands) }

\* an iteration that handles a `/` input whose command name is not registered
UnknownCommandStep ==
    /\ InputStep
    /\ Head(user_input') = "/"
    /\ CommandName(user_input') \notin Registered(registry)

\* C10: an input beginning with `/` whose command name is not registered is
\* consumed (handled = true): no chat turn begins and history, exit flag,
\* active profile id and client are unchanged
C10_UnknownCommandConsumed ==
    [][ UnknownCommandStep
            => /\ dispatched'
               /\ handled'
               /\ pc' = "continue"
               /\ messages' = messages
               /\ context' = context
               /\ bot' = bot
               /\ io_current_coder_id' = io_current_coder_id
               /\ nbuilds' = nbuilds ]_vars

\* C10 witness: `/BYE` is not registered; the notice was printed and the
\* session goes on with its history
C10_Witness ==
    /\ pc = "continue"
    /\ user_input = <<"/","B","Y","E">>
    /\ route = "command"
    /\ handled
    /\ out = << "Unknown command" >>
    /\ ~context.exit_flag
    /\ messages # << >>

(***************************************************************************)
(* Leaving the loop and discarding input.                                  *)
(***************************************************************************)
\* the session state a route without effects leaves alone: history, exit
\* flag, client of the context, client of the loop, active profile id
SessionUntouched ==
    /\ messages' = messages
    /\ context' = context
    /\ bot' = bot
    /\ io_current_coder_id' = io_current_coder_id
    /\ nbuilds' = nbuilds

\* an iteration whose input request ends with the cancellation signal
CancelStep == IterStep /\ raw_input' = None

\* C11: when the input source returns the cancellation signal the loop ends
\* at once: the state becomes EXITING without dispatch, without chat turn and
\* without change to history, active profile id or client, and from EXITING
\* nothing further happens
C11_CancelEndsLoop ==
    [][ /\ CancelStep => /\ pc' = "exiting"
                         /\ ~dispatched'
                         /\ rebuilds' = 0
                         /\ SessionUntouched
        /\ pc = "exiting" => vars' = vars ]_vars

\* C11 witness: after at least one chat turn the input request was cancelled;
\* the loop has ended although the exit flag is false
C11_Witness ==
    /\ pc = "exiting"
    /\ route = "cancel"
    /\ raw_input = None
    /\ ~context.exit_flag
    /\ messages # << >>

\* an iteration whose input, trimmed, is `quit` or `exit` in some letter case
ExitWordStep ==
    /\ IterStep
    /\ raw_input' # None
    /\ Lower(Strip(raw_input')) \in {S_quit, S_exit}

\* C12: an input that, trimmed, equals `quit` or `exit` in any letter case
\* ends the loop: the dispatch of the command registry is not invoked,
\* nothing is appended to the history and the exit flag stays as it was
C12_ExitWordEndsLoop ==
    [][ ExitWordStep => /\ pc' = "exiting"
                        /\ ~dispatched'
                        /\ messages' = messages
                        /\ context'.exit_flag = context.exit_flag ]_vars

\* C12 witness: the input ` quit` has ended a session that has a history
C12_Witness ==
    /\ pc = "exiting"
    /\ raw_input = <<" ">> \o S_quit
    /\ route = "exit"
    /\ ~dispatched
    /\ ~context.exit_flag
    /\ messages # << >>

\* an iteration that handles the command /bye, with or without arguments
ByeStep ==
    /\ InputStep
    /\ Head(user_input') = "/"
    /\ CommandName(user_input') = S_bye

\* C13: /bye sets the exit flag and returns handled = true, leaving history,
\* active profile id and client unchanged; once the exit flag is set the
\* only thing the loop does is to end: no input is requested, no chat turn
\* occurs and the session state stays as it is
C13_ByeEndsLoop ==
    [][ /\ ByeStep => /\ context'.exit_flag
                      /\ dispatched'
                      /\ handled'
                      /\ pc' = "continue"
                      /\ messages' = messages
                      /\ context'.bot = context.bot
                      /\ bot' = bot
                      /\ io_current_coder_id' = io_current_coder_id
                      /\ nbuilds' = nbuilds
        /\ context.exit_flag => (pc' = "exiting" /\ SessionUntouched) ]_vars

\* C13 witness: `/bye hi` has ended a session that has a history
C13_Witness ==
    /\ pc = "exiting"
    /\ user_input = S_bye \o <<" ">> \o S_hi
    /\ handled
    /\ context.exit_flag
    /\ out = << "Goodbye!" >>
    /\ messages # << >>

\* an iteration whose input is empty after trimming
EmptyStep == IterStep /\ raw_input' # None /\ Strip(raw_input') = << >>

\* C14: an input that is empty after trimming is discarded: history, exit
\* flag, active profile id and client are unchanged, nothing is dispatched,
\* no chat turn begins, and the loop requests the next input
C14_EmptyInputDiscarded ==
    [][ /\ EmptyStep => /\ pc' = "continue"
                        /\ ~dispatched'
                        /\ rebuilds' = 0
                        /\ SessionUntouched
        /\ (pc = "continue" /\ ~context.exit_flag) => pc' = "input" ]_vars

\* C14 witness: an input of one blank was discarded in a session that has a
\* history
C14_Witness ==
    /\ pc = "continue"
    /\ raw_input = <<" ">>
    /\ user_input = << >>
    /\ route = "empty"
    /\ ~dispatched
    /\ messages # << >>

(***************************************************************************)
(* /list without a change, and failures of the client factory.             *)
(***************************************************************************)
\* an iteration that handles the command /list
ListStep ==
    /\ InputStep
    /\ Head(user_input') = "/"
    /\ CommandName(user_input') = S_list

\* C15: when the selector of /list is cancelled or returns the id that is
\* already active, the command changes nothing of the session: the active
\* profile id is unchanged, no client is rebuilt, the clients and the
\* history are unchanged, and the command returns handled = true
C15_ListNoChangeIsNoop ==
    [][ (/\ ListStep
         /\ store # << >>
         /\ (selected' = None \/ selected' = io_current_coder_id))
            => /\ dispatched'
               /\ handled'
               /\ pc' = "continue"
               /\ rebuilds' = 0
               /\ utils_current_coder_id' = utils_current_coder_id
               /\ SessionUntouched ]_vars

\* C15 witness: in a session with a history, the selector of /list returned
\* the active id and the unchanged notice was printed
C15_Witness ==
    /\ pc = "continue"
    /\ user_input = S_list
    /\ selected = io_current_coder_id
    /\ handled
    /\ rebuilds = 0
    /\ out = << "Current coder", "Coder unchanged" >>
    /\ messages # << >>

\* C16: when the profile store holds no profiles at the time /list runs, the
\* command prints the no-coders notice and nothing else (the selector, which
\* is announced by the current-coder notice, is not invoked), returns
\* handled = true and changes neither the active profile id nor the client
C16_ListOnEmptyStore ==
    [][ (ListStep /\ store = << >>)
            => /\ out' = << "No coders found in config file." >>
               /\ selected' = None
               /\ dispatched'
               /\ handled'
               /\ pc' = "continue"
               /\ rebuilds' = 0
               /\ SessionUntouched ]_vars

\* C16 witness: the only profile was removed from coders.toml while the
\* session ran, then /list printed the no-coders notice
C16_Witness ==
    /\ store = << >>
    /\ edits > 0
    /\ pc = "continue"
    /\ user_input = S_list
    /\ handled
    /\ out = << "No coders found in config file." >>
    /\ io_current_coder_id = S_a2
    /\ bot.llm.id = S_a2

\* C17: startup fails whenever the configuration of the active profile has
\* no non-empty model identifier (an empty store included): the ValueError
\* leaves run_application, no client is built from a default, the loop is
\* never entered and nothing happens after the failure
C17_StartupFailsWithoutModel ==
    [][ /\ (/\ pc = "start"
            /\ ~ValidProfile(store, get_active_coder_id(io_current_coder_id, store)))
            => /\ pc' = "crashed"
               /\ error' = "ValueError"
               /\ nbuilds' = 0
               /\ bot' = NoClient
               /\ context'.bot = NoClient
        /\ pc = "crashed" => vars' = vars ]_vars

\* C17 witness: startup on an empty store has failed
C17_Witness ==
    /\ store = StoreEmpty
    /\ pc = "crashed"
    /\ error = "ValueError"
    /\ rebuilds = 1
    /\ nbuilds = 0
    /\ bot = NoClient

\* C18: an `@name` switch that resolves to another profile whose client
\* cannot be built (no model identifier) is fatal: the ValueError leaves the
\* main loop; the resolved id is already the active id, while the clients of
\* the session are the ones from before
C18_SwitchFailureIsFatal ==
    [][ LET r == ResolvedId(coders, AskedName(user_input'))
        IN  (SwitchStep /\ r # None /\ r # << >> /\ r # io_current_coder_id
                /\ ~ValidProfile(store, r))
            => /\ pc' = "crashed"
               /\ error' = "ValueError"
               /\ io_current_coder_id' = r
               /\ context' = context
               /\ bot' = bot
               /\ nbuilds' = nbuilds
               /\ messages' = messages ]_vars

\* C18 witness: `@ Beta` resolved to profile a3, which has no model: the
\* session has crashed with a3 active and the client of a1 in place
C18_Witness ==
    /\ store = StoreDup
    /\ pc = "crashed"
    /\ error = "ValueError"
    /\ route = "switch"
    /\ user_input = At(<<" ">> \o S_Beta)
    /\ io_current_coder_id = S_a3
    /\ bot.llm.id = S_a1
    /\ context.bot = bot

(***************************************************************************)
(* Shape of the history, and the fragments of the response streamer.       *)
(***************************************************************************)
\* C19: in every reachable state every assistant message of the history is
\* immediately preceded by a user message and has non-empty content, no two
\* assistant messages are adjacent, and every user message is followed by
\* at most one assistant message
C19_HistoryShape ==
    \A i \in 1..Len(messages) :
        /\ messages[i].role \in {"user", "assistant"}
        /\ messages[i].role = "assistant"
              => /\ i > 1
                 /\ messages[i - 1].role = "user"
                 /\ messages[i].content # << >>
        /\ (i < Len(messages) /\ messages[i].role = "assistant")
              => messages[i + 1].role # "assistant"
        /\ (i + 1 < Len(messages) /\ messages[i].role = "user"
                /\ messages[i + 1].role = "assistant")
              => messages[i + 2].role = "user"

\* C19 witness: a turn without an answer was followed by a turn with one:
\* the history is user, user, assistant
C19_Witness ==
    /\ pc = "continue"
    /\ Len(messages) = 3
    /\ messages[1].role = "user"
    /\ messages[2].role = "user"
    /\ messages[3].role = "assistant"
    /\ messages[3].content = response_text

\* C20: when a run of the agent has ended, the concatenation of the
\* fragments run_llm yielded, in order, is the final response text (the last
\* content run_llm saw), also when a snapshot is shorter than the one before
C20_FragmentsReconstructResponse ==
    [][ (TurnEnds /\ pc' = "continue") => Concat(chunks) = gen_response_text ]_vars

(***************************************************************************)
(* Command parsing, option forwarding and tool configuration.              *)
(***************************************************************************)
\* a call of the function has returned or raised
Called(name) == pc = "returned" /\ fn = name

\* what follows the first whitespace run of a text, "" when there is none
Remainder(u) ==
    LET after == { j \in (Len(CommandName(u)) + 1)..Len(u) : ~IsSpace(u[j]) }
    IN  IF after = {} THEN << >> ELSE SubSeq(u, Min(after), Len(u))

\* C21: dispatch takes an input for a command iff it begins with `/`; the
\* command name is then the input up to its first whitespace run and the
\* remainder is everything after that run, "" if there is none
C21_ParseSplitsAtFirstRun ==
    Called("parse_command")
        => /\ fn_result.raised = "none"
           /\ fn_result.value.is_command <=> (fn_arg # << >> /\ Head(fn_arg) = "/")
           /\ fn_result.value.is_command
                => fn_result.value.parsed = << CommandName(fn_arg), Remainder(fn_arg) >>

\* C21 witness: `/  a` was parsed into the name `/` and the remainder `a`
C21_Witness ==
    /\ Called("parse_command")
    /\ fn_arg = << "/", " ", " ", "a" >>
    /\ fn_result.value.is_command
    /\ fn_result.value.parsed = << << "/" >>, << "a" >> >>

\* the options of a constructed configuration, empty when it has none
OptionsOf(llm_cfg) == DictGet(llm_cfg, "options", << >>)

\* C24: for a profile with a model identifier the constructed options hold a
\* sampling key iff the profile holds it with a non-empty value, and then
\* with that value; there is no options entry when no key qualifies;
\* model_server and api_key are the profile's when present, else the defaults
C24_OptionsForwardedWhenPresent ==
    (Called("prepare_llm_config") /\ Truthy(DictGet(fn_arg, "model_name", None)))
        => /\ fn_result.raised = "none"
           /\ DictGet(fn_result.value, "model", None) = DictGet(fn_arg, "model_name", None)
           /\ \A i \in 1..Len(SamplingKeys) :
                LET key == SamplingKeys[i]
                    qualifies == \E j \in 1..Len(fn_arg) :
                                    fn_arg[j][1] = key /\ fn_arg[j][2] # << >>
                IN  /\ DictHas(OptionsOf(fn_result.value), key) <=> qualifies
                    /\ qualifies => DictGet(OptionsOf(fn_result.value), key, None)
                                        = DictGet(fn_arg, key, None)
           /\ DictHas(fn_result.value, "options")
                <=> \E j \in 1..Len(fn_arg) :
                        /\ \E i \in 1..Len(SamplingKeys) : SamplingKeys[i] = fn_arg[j][1]
                        /\ fn_arg[j][2] # << >>
           /\ DictGet(fn_result.value, "model_server", None) =
                 (IF DictHas(fn_arg, "model_server")
                  THEN DictGet(fn_arg, "model_server", None) ELSE S_server)
           /\ DictGet(fn_result.value, "api_key", None) =
                 (IF DictHas(fn_arg, "api_key")
                  THEN DictGet(fn_arg, "api_key", None) ELSE S_EMPTY)

\* C24 witness: temperature 0 was forwarded, the empty top_k was not, and
\* the absent server and key were replaced by the defaults
C24_Witness ==
    /\ Called("prepare_llm_config")
    /\ fn_arg = << << "model_name", S_m1 >>, << "temperature", << "0" >> >>,
                   << "top_k", << >> >> >>
    /\ fn_result.raised = "none"
    /\ OptionsOf(fn_result.value) = << << "temperature", << "0" >> >> >>
    /\ DictGet(fn_result.value, "model_server", None) = S_server
    /\ DictGet(fn_result.value, "api_key", None) = S_EMPTY

\* C25: whatever the loader delivers for the tool-server configuration, the
\* client factory derives the tool set without raising: one integration
\* holding the mapping when it is a mapping with `mcpServers`, the empty set
\* otherwise (absent or empty file, other mapping, list, string, number)
C25_ToolConfigNeverRaises ==
    Called("prepare_mcp_tools")
        => LET loaded == fn_arg.yaml
               is_mapping_with_servers ==
                   /\ fn_arg.exists
                   /\ loaded.kind = "dict"
                   /\ \E i \in 1..Len(loaded.keys) : loaded.keys[i] = "mcpServers"
           IN  /\ fn_result.raised = "none"
               /\ fn_result.value =
                     (IF is_mapping_with_servers THEN << loaded >> ELSE << >>)

(***************************************************************************)
(* The command registry and the help text.                                 *)
(***************************************************************************)
\* the names of a sequence of register calls, each once, in the order of
\* their first call
RECURSIVE FirstNames(_)
FirstNames(log) ==
    IF log = << >> THEN << >>
    ELSE LET before == FirstNames(SubSeq(log, 1, Len(log) - 1))
             name == log[Len(log)][1]
         IN  IF \E i \in 1..Len(before) : before[i] = name
             THEN before ELSE Append(before, name)

\* the last call of a sequence of register calls that names `name`
LastCall(log, name) ==
    log[CHOOSE i \in 1..Len(log) :
            /\ log[i][1] = name
            /\ \A j \in (i + 1)..Len(log) : log[j][1] # name]

\* the registry holds what the register calls made so far amount to
RegistryMatchesCalls ==
    /\ DictKeys(registry.commands) = FirstNames(reg_log)
    /\ DictKeys(registry.descriptions) = DictKeys(registry.commands)
    /\ \A i \in 1..Len(registry.commands) :
          /\ registry.commands[i][2] = LastCall(reg_log, registry.commands[i][1])[2]
          /\ registry.descriptions[i][2] = LastCall(reg_log, registry.commands[i][1])[3]
    /\ prepare_command_list(registry.descriptions) =
          [i \in 1..Len(FirstNames(reg_log)) |->
              << FirstNames(reg_log)[i], LastCall(reg_log, FirstNames(reg_log)[i])[3] >>]

\* C22: after any sequence of register calls the registry holds one entry
\* per distinct name, with the handler and description of the last call for
\* that name; the listing is in the order of first registration; handler
\* table and description table have the same keys; and no step other than a
\* register call (no operation of the main loop) changes the registry
C22_RegistryIsLastWriteWins ==
    /\ []RegistryMatchesCalls
    /\ [][reg_log' = reg_log => registry' = registry]_vars

\* C22 witness: /bye was registered, then /help, then /bye again with another
\* handler and description: two entries, /bye first, with the later handler
C22_Witness ==
    /\ pc = "import"
    /\ reg_log = << << S_bye, handle_bye_command, D_bye >>,
                    << S_help, handle_help_command, D_help >>,
                    << S_bye, handle_help_command, D_help >> >>
    /\ prepare_command_list(registry.descriptions) =
          << << S_bye, D_help >>, << S_help, D_help >> >>
    /\ DictGet(registry.commands, S_bye, None) = handle_help_command

\* the lines of a printed text: its parts that end with a line break
RECURSIVE Lines(_)
Lines(text) ==
    IF text = << >> THEN << >>
    ELSE LET ends == { i \in 1..Len(text) : text[i] = "\n" }
         IN  IF ends = {} THEN << text >>
             ELSE << SubSeq(text, 1, Min(ends) - 1) >>
                      \o Lines(SliceFrom(text, Min(ends)))

\* an iteration that handles the command /help
HelpStep ==
    /\ InputStep
    /\ Head(user_input') = "/"
    /\ CommandName(user_input') = S_help

\* C23: the help command returns handled = true and prints the header line
\* followed by exactly one line `  {name} - {description}` per registered
\* entry, in registration order; it changes no session state
C23_HelpListsRegistry ==
    [][ HelpStep
            => /\ dispatched'
               /\ handled'
               /\ pc' = "continue"
               /\ Lines(help_out') =
                     << S_header >> \o
                     [i \in 1..Len(prepare_command_list(registry.descriptions)) |->
                         <<" ", " ">>
                             \o prepare_command_list(registry.descriptions)[i][1]
                             \o <<" ", "-", " ">>
                             \o prepare_command_list(registry.descriptions)[i][2]]
               /\ registry' = registry
               /\ SessionUntouched ]_vars

\* C23 witness: in a session with a history /help printed four lines, the
\* line of /bye before the line of /help
C23_Witness ==
    /\ pc = "continue"
    /\ user_input = S_help
    /\ handled
    /\ Len(Lines(help_out)) = 4
    /\ Lines(help_out)[2] = <<" ", " ">> \o S_bye \o <<" ", "-", " ">> \o D_bye
    /\ Lines(help_out)[3] = <<" ", " ">> \o S_help \o <<" ", "-", " ">> \o D_help
    /\ messages # << >>

(***************************************************************************)
(* The active profile id, and the chat turn as one sequential step.        *)
(***************************************************************************)
\* C26: the first read resolves the active id to the first profile id in
\* load order (the empty id when the store is empty); every later read
\* returns the id resolved or last set; and a resolved id changes only
\* through a user selection, `@name` or /list, to the id selected: not by a
\* read, a chat turn, another command or a change of the store
C26_ActiveIdLifecycle ==
    [][ /\ pc = "start"
            => /\ store # << >> => io_current_coder_id' = store[1].id
               /\ store = << >>
                    => get_active_coder_id(io_current_coder_id', store') = << >>
        /\ (IterStep /\ io_current_coder_id # None)
            => current_coder_id' = io_current_coder_id
        /\ (io_current_coder_id # None
                /\ io_current_coder_id' # io_current_coder_id)
            => \/ /\ SwitchStep
                  /\ io_current_coder_id' =
                        ResolvedId(coders, AskedName(user_input'))
               \/ /\ ListSelectsOther
                  /\ io_current_coder_id' = selected' ]_vars

\* C26 witness: the active profile was removed from the store and a later
\* iteration still read its id
C26_Witness ==
    /\ pc = "continue"
    /\ edits > 0
    /\ route = "chat"
    /\ current_coder_id = S_a1
    /\ io_current_coder_id = S_a1
    /\ \A i \in 1..Len(store) : store[i].id # S_a1

\* C27: from the append of the user message to the end of the turn the loop
\* reads no input, dispatches no command and switches no profile, and the
\* only message that can be appended is the assistant message that ends the
\* turn; a chat turn begins only at the loop head, never while one streams
C27_TurnIsAtomic ==
    [][ /\ pc = "stream"
            => /\ pc' \in {"stream", "continue", "crashed"}
               /\ raw_input' = raw_input
               /\ user_input' = user_input
               /\ dispatched' = dispatched
               /\ handled' = handled
               /\ rebuilds' = rebuilds
               /\ io_current_coder_id' = io_current_coder_id
               /\ bot' = bot
               /\ context' = context
               /\ \/ messages' = messages
                  \/ /\ pc' = "continue"
                     /\ Len(messages') = Len(messages) + 1
                     /\ SubSeq(messages', 1, Len(messages)) = messages
                     /\ messages'[Len(messages')].role = "assistant"
        /\ (Len(messages') > Len(messages)
                /\ messages'[Len(messages')].role = "user")
            => pc = "input" /\ pc' = "stream" ]_vars

\* C27 witness: a turn in progress with a partial response, the user message
\* still the last of the history
C27_Witness ==
    /\ pc = "stream"
    /\ nresp = 1
    /\ response_text # << >>
    /\ Len(turn_history) = 2
    /\ messages = Append(turn_history, TurnUser)

\* C28: a chat turn invokes run_llm once, with the history whose last
\* element is the user message just appended; the streaming steps of the
\* turn do not invoke it again, whatever the stream produced; an input
\* consumed by a switch, an exit word or a command does not invoke it
C28_StreamerInvokedOnce ==
    [][ /\ (InputStep /\ RouteOf(user_input') = "chat")
            => /\ run_calls' = 1
               /\ run_messages' = Append(messages, Message("user", user_input'))
               /\ messages' = run_messages'
        /\ (IterStep /\ ~(InputStep /\ RouteOf(user_input') = "chat"))
            => /\ run_calls' = 0
               /\ run_messages' = run_messages
        /\ pc = "stream"
            => /\ run_calls = 1
               /\ run_calls' = 1
               /\ pc' = "stream" => run_messages' = run_messages ]_vars

\* C28 witness: the second chat turn has streamed two responses; run_llm was
\* invoked once, with the two earlier messages followed by the user message
C28_Witness ==
    /\ pc = "stream"
    /\ route = "chat"
    /\ run_calls = 1
    /\ nresp = 2
    /\ Len(run_messages) = 3
    /\ run_messages[3] = TurnUser

(***************************************************************************)
(* The prompt and the resolution of `@name`.                               *)
(***************************************************************************)
\* C29: at the start of every iteration the prompt shows the display name
\* that the store gives, at that iteration, to the active profile id, and
\* the raw id when the store no longer has that profile
C29_PromptShowsStoreName ==
    [][ IterStep
            => coder_name' =
                  display_name(extract_available_coders(store), current_coder_id') ]_vars

\* C30: the text after `@`, trimmed, resolves to the id of the first profile
\* in load order whose display name equals it ignoring the letter case,
\* whatever the profile ids are: the unknown-coder notice is printed exactly
\* when no display name matches, and then active id, clients, history and
\* exit flag are unchanged and the loop continues; a match other than the
\* active id becomes the active id
C30_AtNameResolvesFirstMatch ==
    [][ LET r == ResolvedId(coders, AskedName(user_input'))
        IN  SwitchStep
            => /\ (out' = << "Unknown coder" >>) <=> (r = None)
               /\ r = None
                    => /\ SessionUntouched
                       /\ pc' = "continue"
               /\ (r # None /\ r # current_coder_id')
                    => io_current_coder_id' = r ]_vars

(***************************************************************************)
(* Dispatch to a registered handler; the history; the exit flag.           *)
(***************************************************************************)
\* an iteration that handles a `/` input whose command name is registered
RegisteredStep ==
    /\ InputStep
    /\ Head(user_input') = "/"
    /\ CommandName(user_input') \in Registered(registry)

\* C31: for an input whose command name is registered, handle_command calls
\* the handler of that name once, with the remainder of the input, and
\* returns what it returns: true for each of /bye, /help and /list; no input
\* beginning with `/` is appended to the history or passed to run_llm
C31_RegisteredHandlerCalledOnce ==
    [][ /\ RegisteredStep
            => /\ dispatched'
               /\ handler_calls' =
                     << << DictGet(registry.commands, CommandName(user_input'), None),
                           Remainder(user_input') >> >>
               /\ pc' # "crashed" => handled'
        /\ (InputStep /\ Head(user_input') = "/")
            => /\ messages' = messages
               /\ run_calls' = 0
               /\ pc' # "stream" ]_vars

\* C31 witness: `/bye hi` in a session with a history called the handler of
\* /bye once with the remainder `hi`; it returned true
C31_Witness ==
    /\ pc = "continue"
    /\ user_input = S_bye \o <<" ">> \o S_hi
    /\ handler_calls = << << handle_bye_command, S_hi >> >>
    /\ handled
    /\ run_calls = 0
    /\ messages # << >>

\* C32: the history only grows at its end: in every step the history before
\* is a prefix of the history after (hence of every later one); it grows
\* only when a chat turn begins, by the user message, and when the turn
\* ends, by at most one assistant message; commands, switches, empty input
\* and the exit paths leave it as it is
C32_HistoryAppendOnly ==
    [][ /\ Len(messages') >= Len(messages)
        /\ SubSeq(messages', 1, Len(messages)) = messages
        /\ messages' # messages
            => \/ /\ InputStep
                  /\ RouteOf(user_input') = "chat"
                  /\ messages' = Append(messages, Message("user", user_input'))
               \/ /\ TurnEnds
                  /\ Len(messages') = Len(messages) + 1
                  /\ messages'[Len(messages')].role = "assistant"
                  /\ messages[Len(messages)] = TurnUser ]_vars

\* C32 witness: a switch that rebuilt the client in a session whose history
\* has two complete turns
C32_Witness ==
    /\ pc = "continue"
    /\ route = "switch"
    /\ rebuilds = 1
    /\ Len(messages) = 4
    /\ messages[4].role = "assistant"

\* the exit flag is false whenever input is requested, and at startup
ExitFlagFalseAtInput == pc \in {"start", "input"} => ~context.exit_flag

\* C34: the exit flag is false at startup and whenever input is requested;
\* it becomes true only in the iteration that handles /bye, and once true it
\* stays true; no other route changes it
C34_ExitFlagMonotone ==
    /\ []ExitFlagFalseAtInput
    /\ [][ /\ context.exit_flag => context'.exit_flag
           /\ context'.exit_flag # context.exit_flag => ByeStep ]_vars

\* C34 witness: the loop has ended on /bye with the flag set, after a chat
\* turn and a switch
C34_Witness ==
    /\ pc = "exiting"
    /\ context.exit_flag
    /\ user_input = S_bye
    /\ nbuilds = 2
    /\ messages # << >>

\* the iteration just done consumed a cancellation, an exit word or /bye
ExitRequested ==
    /\ pc \in {"continue", "exiting"}
    /\ \/ route \in {"cancel", "exit"}
       \/ route = "command" /\ context.exit_flag

\* C35: once a cancellation, an exit word or /bye has been consumed the
\* session reaches EXITING; a chat turn whose stream is finite comes to its
\* end; and EXITING is terminal: no input is read, no chat turn occurs, and
\* history, active profile id and clients stay as they are
C35_ExitRequestTerminates ==
    /\ ExitRequested ~> (pc = "exiting")
    /\ (pc = "stream") ~> (pc # "stream")
    /\ [](pc = "exiting" => [](pc = "exiting"))
    /\ [][ pc = "exiting"
             => /\ raw_input' = raw_input
                /\ run_calls' = run_calls
                /\ messages' = messages
                /\ io_current_coder_id' = io_current_coder_id
                /\ context' = context
                /\ bot' = bot ]_vars

\* C35 witness: the session has ended on the word EXIT after a chat turn
C35_Witness ==
    /\ pc = "exiting"
    /\ route = "exit"
    /\ user_input = <<"E", "X", "I", "T">>
    /\ ~context.exit_flag
    /\ Len(messages) >= 2

(***************************************************************************)
(* The legacy loop and the legacy dispatch.                                *)
(***************************************************************************)
\* C33: in the legacy loop a chat turn on history H with user message M
\* leaves H + [user:M] followed by zero or one assistant message whose
\* content is the text streamed in the turn; when the agent run yields
\* nothing the history is H + [user:M] and the loop continues
C33_LegacyTurnAppendsResponse ==
    [][ (TurnEnds /\ error' # "AgentError")
            => /\ pc' = "continue"
               /\ \/ messages' = turn_history \o << TurnUser >>
                  \/ messages' = turn_history \o
                        << TurnUser, Message("assistant", Concat(chunks)) >>
               /\ nresp = 0 => messages' = turn_history \o << TurnUser >> ]_vars

\* C36: on every input and the same registered names the two dispatchers
\* agree: both return false for an input that does not begin with `/`;
\* otherwise both select the same command name and pass the same remainder
\* to its handler, or both consume the input as an unknown command
C36_DispatchersAgree ==
    Called("handle_command")
        => LET text == fn_arg[1]
               names == { fn_arg[2][i][1] : i \in 1..Len(fn_arg[2]) }
               new == fn_result.value.new
               legacy == fn_result.value.legacy
           IN  /\ new = legacy
               /\ new[1] = "false" <=> ~(text # << >> /\ Head(text) = "/")
               /\ new[1] = "call"
                    => /\ new[2] = CommandName(text)
                       /\ new[2] \in names
                       /\ new[3] = Remainder(text)
               /\ new[1] = "unknown"
                    => /\ new[2] = CommandName(text)
                       /\ new[2] \notin names

\* C36 witness: both dispatchers call the handler of the bare `/` with the
\* remainder `a `
C36_Witness ==
    /\ Called("handle_command")
    /\ fn_arg[1] = << "/", " ", "a", " " >>
    /\ fn_result.value.new = << "call", << "/" >>, << "a", " " >> >>
    /\ fn_result.value.legacy = fn_result.value.new

(***************************************************************************)
(* The profile selector and filter_choices.                                *)
(***************************************************************************)
\* C37: the selector returns None or the id of one of the pairs it was
\* given, and accepting the displayed choice `id: display` of a pair returns
\* the id of that pair, also for ids that contain `:` or surrounding spaces
C37_SelectorReturnsGivenId ==
    Called("fuzzy_select_from_list")
        => LET values == fn_arg[1]
               text == fn_arg[2]
           IN  /\ fn_result.raised = "none"
               /\ \/ fn_result.value = None
                  \/ \E i \in 1..Len(values) : fn_result.value = values[i][1]
               /\ \A i \in 1..Len(values) :
                     text = values[i][1] \o << ":", " " >> \o values[i][2]
                        => fn_result.value = values[i][1]

\* C38: filter_choices returns the choices that contain the query, ignoring
\* the letter case, in their original order, and all choices for the empty
\* query; every element it returns is one of the choices
C38_FilterReturnsMatchingChoices ==
    Called("filter_choices")
        => LET query == fn_arg[1]
               choices == fn_arg[2]
               matches(choice) == Contains(Lower(choice), Lower(query))
           IN  /\ fn_result.raised = "none"
               /\ query = << >> => fn_result.value = choices
               /\ fn_result.value = SelectSeq(choices, matches)
               /\ \A i \in 1..Len(fn_result.value) :
                     \E j \in 1..Len(choices) : fn_result.value[i] = choices[j]

=============================================================================
